---- MODULE Spec2Model ----
(***************************************************************************)
(* Verification model of the sandboxed file-access engine (c3mb0/cemcp):   *)
(* the path containment resolver (pathutil.go), the advisory lock manager  *)
(* and atomic writer (helpers.go, main.go), and the concurrent scan engine *)
(* (search.go, glob handler, services/filesystem/search.go).               *)
(*                                                                         *)
(* A path is a sequence of characters (one-character strings, plus the     *)
(* tokens "file:" for the URI scheme and "%2E" for a percent-encoded dot), *)
(* so that string prefix tests are the ones the code performs.             *)
(***************************************************************************)
EXTENDS Naturals, Integers, Sequences, FiniteSets, TLC

VARIABLES
    fsR,        \* resolver: the directory tree (path string -> node)
    reqPath,    \* resolver: the caller-supplied request path
    opR,        \* resolver: the operation that ran ("none" before it runs)
    resR,       \* resolver: its result record
    goos,       \* runtime.GOOS of the build
    target,     \* the file at the write target path
    sentinel,   \* the file <path>.lock
    tmp,        \* per call: the temp file of atomicWrite
    pc,         \* per caller: position in its call
    call,       \* per caller: the arguments of its call
    pre,        \* per caller: what the Lstat before the lock saw
    buf,        \* per caller: the bytes to write (append: the bytes left)
    elapsed,    \* per caller: ticks since acquireLock set its deadline
    sleepLeft,  \* per caller: ticks left of time.Sleep
    waits,      \* per caller: deadline checks its current acquireLock made
    evicted,    \* per caller: its current acquireLock removed a stale sentinel
    res,        \* per caller: the result of its call
    faults,     \* I/O failures injected so far
    scanKind,   \* scan: which handler runs ("search", "glob", "perform")
    maxResults, \* scan: the result limit (max)
    walk,       \* scan: the entries filepath.WalkDir has still to visit
    walkPc,     \* scan: position of the walker goroutine
    files,      \* scan: the buffered channel between walker and workers
    ctxDone,    \* scan: the context has been cancelled
    matches,    \* scan: the shared result slice
    matchCount, \* scan: performSearch's atomic counter
    wpc,        \* per worker: position in its loop
    wcur,       \* per worker: the entry in hand, matches left or found in it
    returned,   \* scan: the handler has returned
    walkErr,    \* scan: what filepath.WalkDir returned ("" for nil)
    hist,       \* sequential caller: each call made, its result, the file after it
    tree,       \* scan: the directory as it was when the scan began
    dcalls,     \* directory calls: how many calls have returned
    dlast,      \* directory calls: the last two calls, latest first
    lpc,        \* racing write: position of the handleWrite call
    lcall,      \* racing write: the arguments of the call
    lpre,       \* racing write: the target existed at the Lstat before the lock
    lnode,      \* racing write: what sits at the target path
    linner,     \* racing write: bytes of the regular file at the target path
    louter,     \* racing write: bytes of the file outside Root
    lres,       \* racing write: the result of the call
    lockCtx,    \* cancellable acquire: the acquireLock of the build takes a context
    cancelled,  \* cancellable acquire: the context of the calls is done
    cancelWaits, \* cancellable acquire: per caller, its sleeps when the context was cancelled
    removeFails, \* eviction: os.Remove of the lock file fails (the directory is not writable)
    fnCall,     \* single call: the handler called, its arguments and the files it finds
    fnOut,      \* single call: what the call returned (NoOut before it has)
    mu,         \* sessions: the RWMutex of the session map (writer, readers)
    sessions,   \* sessions: the ids in the session map
    spc,        \* sessions: per handler call, its position
    scall,      \* sessions: per handler call, the tool and the id it names
    sres,       \* sessions: per handler call, its result
    dbgSessions, \* debug store: session id -> status
    dbgOrder,   \* debug store: the ids in the order they were first recorded
    dbgCall,    \* debug store: the last call, the order list it found, its answer
    lockNode,   \* sentinel path: what sits at <p>.lock
    lockLock,   \* sentinel path: the caller whose lock file sits at <p>.lock.lock
    ipre,       \* sentinel path: per caller, what its Lstat found
    ipc,        \* sentinel path: per caller, its position
    icall,      \* sentinel path: per caller, the tool and the path it names
    ires        \* sentinel path: per caller, its result

varsR == <<fsR, reqPath, opR, resR>>
varsW == <<goos, target, sentinel, tmp, pc, call, pre, buf, elapsed, sleepLeft,
           waits, evicted, res, faults>>
varsS == <<scanKind, maxResults, walk, walkPc, files, ctxDone, matches, matchCount,
           wpc, wcur, returned, walkErr>>
varsH == <<hist, tree>>
varsD == <<dcalls, dlast>>
varsL == <<lpc, lcall, lpre, lnode, linner, louter, lres>>
varsC == <<lockCtx, cancelled, cancelWaits, removeFails>>
varsP == <<fnCall, fnOut>>
varsM == <<mu, sessions, spc, scall, sres>>
varsG == <<dbgSessions, dbgOrder, dbgCall>>
varsI == <<lockNode, lockLock, ipc, icall, ipre, ires>>
vars == <<varsR, varsW, varsS, varsH, varsD, varsL, varsC, varsP, varsM, varsG, varsI>>

\* What an operation of one part of the server leaves alone.
FrameR == UNCHANGED <<varsW, varsS, varsH, varsD, varsL, varsC, varsP, varsM, varsG, varsI>>
FrameW == UNCHANGED <<varsR, varsS, varsH, varsD, varsL, varsC, varsP, varsM, varsG, varsI>>
FrameS == UNCHANGED <<varsR, varsW, varsH, varsD, varsL, varsC, varsP, varsM, varsG, varsI>>
FrameD == UNCHANGED <<reqPath, opR, resR, varsW, varsS, varsH, varsL, varsC, varsP, varsM, varsG, varsI>>
FrameL == UNCHANGED <<varsR, varsW, varsS, varsH, varsD, varsC, varsP, varsM, varsG, varsI>>

\* A file (absent, or present with its bytes) and the lock file of a path.
Absent == [exists |-> FALSE, data |-> <<>>]
FileOf(d) == [exists |-> TRUE, data |-> d]
NoSentinel == [exists |-> FALSE, owner |-> 0, stale |-> FALSE]
\* A sentinel left behind by a holder that crashed more than ten minutes ago.
StaleSentinel == [exists |-> TRUE, owner |-> 0, stale |-> TRUE]
FreshSentinel(p) == [exists |-> TRUE, owner |-> p, stale |-> FALSE]

\* The state of a part of the server that no call is using.
IdleR == fsR = <<>> /\ reqPath = <<>> /\ opR = "none" /\ resR = <<>>

IdleW ==
    /\ goos = "linux"
    /\ target = Absent
    /\ sentinel = NoSentinel
    /\ tmp = <<>> /\ pc = <<>> /\ call = <<>> /\ pre = <<>> /\ buf = <<>>
    /\ elapsed = <<>> /\ sleepLeft = <<>> /\ waits = <<>> /\ evicted = <<>>
    /\ res = <<>>
    /\ faults = 0

IdleS ==
    /\ scanKind = "none"
    /\ maxResults = 0
    /\ walk = <<>> /\ walkPc = "done" /\ files = <<>>
    /\ ctxDone = FALSE
    /\ matches = <<>> /\ matchCount = 0
    /\ wpc = <<>> /\ wcur = <<>>
    /\ returned = FALSE
    /\ walkErr = ""

IdleH == hist = <<>> /\ tree = <<>>

IdleD == dcalls = 0 /\ dlast = <<>>

IdleL ==
    /\ lpc = "done" /\ lcall = <<>> /\ lpre = FALSE /\ lnode = "absent"
    /\ linner = <<>> /\ louter = <<>> /\ lres = ""

IdleC ==
    /\ lockCtx = FALSE /\ cancelled = FALSE /\ cancelWaits = <<>>
    /\ removeFails = FALSE

\* What a single call returned, and the value before it has.
NoOut == [done |-> FALSE]
Out(v) == [done |-> TRUE, val |-> v]
IdleP == fnCall = <<>> /\ fnOut = NoOut

\* An RWMutex nobody holds.
Unlocked == [writer |-> 0, readers |-> {}]
IdleM ==
    /\ mu = Unlocked /\ sessions = {}
    /\ spc = <<>> /\ scall = <<>> /\ sres = <<>>

IdleG == dbgSessions = <<>> /\ dbgOrder = <<>> /\ dbgCall = <<>>

\* Nothing at a path.
NoNode == [kind |-> "absent", by |-> 0]
IdleI ==
    /\ lockNode = NoNode /\ lockLock = 0
    /\ ipc = <<>> /\ icall = <<>> /\ ipre = <<>> /\ ires = <<>>

----------------------------------------------------------------------------
(* Bounds *)

MaxComps == 3        \* path components in a request path
MaxLinks == 3        \* symlinks followed in one resolution before giving up
NProcs == 2          \* concurrent calls
WriteTimeout == 2    \* the handlers' lock timeout, in backoff intervals
MaxFaults == 1       \* injected I/O failures in one behaviour
MaxEntries == 4      \* entries under the directory a scan walks
MaxHits == 2         \* matching lines in one file
NWorkers == 2        \* worker goroutines of a scan
ChanCap == 1         \* capacity of the channel between walker and workers
MaxLimit == 2        \* largest result limit a scan is called with

----------------------------------------------------------------------------
(* Strings and the path/filepath functions the resolver calls *)

Sep == <<"/">>
Dot == <<".">>
DotDot == <<".", ".">>

HasPrefix(s, p) == Len(s) >= Len(p) /\ SubSeq(s, 1, Len(p)) = p

\* The elements of s between separators, empty elements included.
RECURSIVE SplitSep(_)
SplitSep(s) ==
    IF s = <<>> THEN << <<>> >>
    ELSE IF Head(s) = "/" THEN << <<>> >> \o SplitSep(Tail(s))
    ELSE LET r == SplitSep(Tail(s))
         IN  << <<Head(s)>> \o Head(r) >> \o Tail(r)

RECURSIVE JoinSep(_)
JoinSep(comps) ==
    IF comps = <<>> THEN <<>>
    ELSE IF Len(comps) = 1 THEN comps[1]
    ELSE comps[1] \o Sep \o JoinSep(Tail(comps))

IsAbs(s) == s # <<>> /\ s[1] = "/"

RECURSIVE CleanStack(_, _, _)
CleanStack(comps, stk, rooted) ==
    IF comps = <<>> THEN stk
    ELSE LET c == Head(comps)
         IN  IF c = DotDot
             THEN IF stk # <<>> /\ stk[Len(stk)] # DotDot
                  THEN CleanStack(Tail(comps), SubSeq(stk, 1, Len(stk) - 1), rooted)
                  ELSE IF rooted
                       THEN CleanStack(Tail(comps), stk, rooted)
                       ELSE CleanStack(Tail(comps), Append(stk, c), rooted)
             ELSE CleanStack(Tail(comps), Append(stk, c), rooted)

CleanJoin(stk, rooted) ==
    IF rooted THEN Sep \o JoinSep(stk)
    ELSE IF stk = <<>> THEN Dot ELSE JoinSep(stk)

\* filepath.Clean: collapse separators, drop ".", resolve ".." lexically.
Clean(s) ==
    CleanJoin(CleanStack(SelectSeq(SplitSep(s), LAMBDA c : c # <<>> /\ c # Dot),
                         <<>>, IsAbs(s)),
              IsAbs(s))

\* filepath.Join of two elements: empty elements are ignored, the result cleaned.
Join2(a, b) ==
    IF a = <<>> /\ b = <<>> THEN <<>>
    ELSE IF a = <<>> THEN Clean(b)
    ELSE IF b = <<>> THEN Clean(a)
    ELSE Clean(a \o Sep \o b)

\* filepath.Split: dir is everything up to and including the last separator.
LastSep(s) ==
    LET idx == {i \in 1..Len(s) : s[i] = "/"}
    IN  IF idx = {} THEN 0 ELSE CHOOSE i \in idx : \A j \in idx : j <= i

SplitDir(s) == SubSeq(s, 1, LastSep(s))
SplitBase(s) == SubSeq(s, LastSep(s) + 1, Len(s))

\* filepath.Abs of a path; every path the resolver passes is already absolute.
mustAbs(p) == Clean(p)

Comps(p) == SelectSeq(SplitSep(p), LAMBDA c : c # <<>>)
AbsStr(comps) == Sep \o JoinSep(comps)

\* filepath.EvalSymlinks: walk the components, following symlinks (targets are
\* absolute); fails with "notexist" on a missing element, "notdir" when a
\* file is used as a directory, "loop" after too many links.
RECURSIVE EvalWalk(_, _, _, _)
RECURSIVE EvalStep(_, _, _, _, _)
EvalWalk(F, cur, rest, fuel) ==
    IF rest = <<>> THEN [err |-> "", path |-> AbsStr(cur)]
    ELSE IF Head(rest) = DotDot
         THEN EvalWalk(F, IF cur = <<>> THEN cur ELSE SubSeq(cur, 1, Len(cur) - 1),
                       Tail(rest), fuel)
    ELSE EvalStep(F, cur, rest, fuel, AbsStr(Append(cur, Head(rest))))

\* One element of the walk: key is the path of the element under cur.
EvalStep(F, cur, rest, fuel, key) ==
    IF key \notin DOMAIN F THEN [err |-> "notexist", path |-> <<>>]
    ELSE IF F[key].kind = "symlink"
         THEN IF fuel = 0 THEN [err |-> "loop", path |-> <<>>]
              ELSE EvalWalk(F, <<>>, Comps(F[key].target) \o Tail(rest), fuel - 1)
    ELSE IF F[key].kind = "file" /\ Tail(rest) # <<>>
         THEN [err |-> "notdir", path |-> <<>>]
    ELSE EvalWalk(F, Append(cur, Head(rest)), Tail(rest), fuel)

EvalSymlinks(F, p) == EvalWalk(F, <<>>, Comps(Clean(p)), MaxLinks)

----------------------------------------------------------------------------
(* net/url as safeJoin uses it *)

FileScheme == <<"file:", "/", "/">>

\* Percent-decoding of the tokens of the alphabet.
Unescape(s) == [i \in 1..Len(s) |-> IF s[i] = "%2E" THEN "." ELSE s[i]]

\* url.Parse(...).Path of a file:// URI: what follows the authority, decoded.
FirstSep(s) ==
    LET idx == {i \in 1..Len(s) : s[i] = "/"}
    IN  IF idx = {} THEN 0 ELSE CHOOSE i \in idx : \A j \in idx : i <= j

urlPath(u) ==
    LET rest == SubSeq(u, Len(FileScheme) + 1, Len(u))
        i    == FirstSep(rest)
    IN  IF i = 0 THEN <<>> ELSE Unescape(SubSeq(rest, i, Len(rest)))

----------------------------------------------------------------------------
(* The resolver *)

\* The containment test of safeJoin and safeJoinResolveFinal.
WithinPlainPrefix(p, root) == HasPrefix(p, root)
WithinBelowOnly(p, root) == HasPrefix(p, root \o Sep)
Within(p, root) == HasPrefix(p \o Sep, root \o Sep) \/ p = root

\* if r2, err := filepath.EvalSymlinks(p); err == nil { p = r2 }
ResolvedOr(r2, p) == IF r2.err = "" THEN r2.path ELSE p

ResolvedRoot(F, root) == ResolvedOr(EvalSymlinks(F, mustAbs(root)), mustAbs(root))

\* The working string of safeJoin: the decoded path of a file:// URI, or the
\* request itself.
requestString(req) ==
    IF HasPrefix(req, FileScheme)
    THEN LET up    == urlPath(req)
             unesc == Unescape(up)
         IN  IF unesc # <<>> THEN unesc ELSE up
    ELSE req

\* The last test of safeJoin: finalAbs must be rootResolved or under it.
safeJoinCheck(finalAbs, rootResolved) ==
    IF ~Within(finalAbs, rootResolved)
    THEN [err |-> "PathEscape", path |-> <<>>]
    ELSE [err |-> "", path |-> finalAbs]

\* The parent of a relative request, resolved when it exists.
safeJoinParent(F, parent) == ResolvedOr(EvalSymlinks(F, parent), mustAbs(parent))

\* safeJoin on the cleaned request: an absolute path is only compared with
\* the root; a relative one is joined to its resolved parent first.
safeJoinClean(F, root, clean) ==
    IF IsAbs(clean)
    THEN safeJoinCheck(mustAbs(clean), ResolvedRoot(F, root))
    ELSE safeJoinCheck(
           mustAbs(Join2(safeJoinParent(F, Join2(mustAbs(root), SplitDir(clean))),
                         SplitBase(clean))),
           ResolvedRoot(F, root))

safeJoin(F, root, req) ==
    IF req = <<>> THEN [err |-> "PathRequired", path |-> <<>>]
    ELSE safeJoinClean(F, root, Clean(requestString(req)))

FinalCheckSkipped(resolvedAbs, rootResolved) == TRUE
FinalCheck(resolvedAbs, rootResolved) == Within(resolvedAbs, rootResolved)

\* The last test of safeJoinResolveFinal, on the fully resolved path.
resolveFinalCheck(resolvedAbs, rootResolved) ==
    IF ~FinalCheck(resolvedAbs, rootResolved)
    THEN [err |-> "SymlinkEscape", path |-> <<>>]
    ELSE [err |-> "", path |-> resolvedAbs]

\* safeJoinResolveFinal after safeJoin returned j and EvalSymlinks(j.path)
\* returned r: a path that does not exist yet is returned as it is.
resolveFinal(F, root, j, r) ==
    IF j.err # "" THEN j
    ELSE IF r.err # ""
         THEN IF r.err # "notexist"
              THEN [err |-> "EvalSymlinks", path |-> <<>>]
              ELSE [err |-> "", path |-> j.path]
    ELSE resolveFinalCheck(mustAbs(r.path), ResolvedRoot(F, root))

resolveFinalOf(F, root, j) == resolveFinal(F, root, j, EvalSymlinks(F, j.path))

safeJoinResolveFinal(F, root, req) == resolveFinalOf(F, root, safeJoin(F, root, req))

----------------------------------------------------------------------------
(* The resolver specification: one request against one directory tree *)

Root == <<"/", "r">>

Dir == [kind |-> "dir", target |-> <<>>]
File == [kind |-> "file", target |-> <<>>]
Link(t) == [kind |-> "symlink", target |-> t]

P(a) == Sep \o a
P2(a, b) == Sep \o a \o Sep \o b
P3(a, b, c) == Sep \o a \o Sep \o b \o Sep \o c

\* Root /r holds d/, d/f and f; outside it are /o (with f), /l (a link back
\* into Root) and /re, whose name has Root's name as a string prefix.
BaseFS ==
    (Sep :> Dir) @@ (P(<<"r">>) :> Dir) @@ (P2(<<"r">>, <<"d">>) :> Dir) @@
    (P3(<<"r">>, <<"d">>, <<"f">>) :> File) @@ (P2(<<"r">>, <<"f">>) :> File) @@
    (P(<<"o">>) :> Dir) @@ (P2(<<"o">>, <<"f">>) :> File) @@
    (P(<<"l">>) :> Link(P2(<<"r">>, <<"d">>))) @@
    (P(<<"r", "e">>) :> Dir) @@ (P2(<<"r", "e">>, <<"f">>) :> File)

\* Targets of the symlink /r/l: a directory and a file outside Root, a
\* directory inside Root, and a missing path outside Root.
LinkTargets ==
    {P(<<"o">>), P2(<<"o">>, <<"f">>), P2(<<"r">>, <<"d">>), P2(<<"o">>, <<"d">>)}

Layouts == {BaseFS} \cup {(P2(<<"r">>, <<"l">>) :> Link(t)) @@ BaseFS : t \in LinkTargets}

Names == {<<"r">>, <<"r", "e">>, <<"o">>, <<"d">>, <<"f">>, <<"l">>, DotDot, <<"%2E", "%2E">>}
CompSeqs == UNION {[1..n -> Names] : n \in 0..MaxComps}
Requests ==
    {JoinSep(cs) : cs \in CompSeqs}
    \cup {Sep \o JoinSep(cs) : cs \in CompSeqs}
    \cup {FileScheme \o Sep \o JoinSep(cs) : cs \in CompSeqs}

NoRes == [err |-> "", path |-> <<>>, src |-> {}]

\* os.Stat / os.Open of a path: the node reached after following symlinks.
Follow(F, p) == EvalSymlinks(F, p)

Children(F, d) == {k \in DOMAIN F : Len(k) > Len(d) /\ SplitDir(k) = d \o Sep}
Descendants(F, d) == {k \in DOMAIN F : k = d \/ HasPrefix(k, d \o Sep)}

InitR ==
    /\ fsR \in Layouts
    /\ reqPath \in Requests
    /\ opR = "none"
    /\ resR = NoRes
    /\ IdleW
    /\ IdleS
    /\ IdleH /\ IdleD /\ IdleL /\ IdleC /\ IdleP
    /\ IdleM /\ IdleG /\ IdleI

\* The result of a call: its error, the path it resolved, and the paths
\* whose content or metadata it returned.
Failed(e) == [err |-> e, path |-> <<>>, src |-> {}]
Returned(p, srcs) == [err |-> "", path |-> p, src |-> srcs]
Resolved(j) == [err |-> j.err, path |-> j.path, src |-> {}]

SafeJoinOp ==
    /\ opR = "none"
    /\ opR' = "safeJoin"
    /\ resR' = Resolved(safeJoin(fsR, Root, reqPath))
    /\ UNCHANGED <<fsR, reqPath>>
    /\ FrameR

\* handleRead: resolve fully, Stat, Open and read the file.
\* What a handler does with the resolved path j once os.Stat or os.Open,
\* which follow symlinks, returned st: onFile for a file, onDir for a directory.
Opened(F, j, st, statErr, onFile, onDir) ==
    IF j.err # "" THEN Failed(j.err)
    ELSE IF st.err # "" THEN Failed(statErr)
    ELSE IF F[st.path].kind = "dir" THEN onDir
    ELSE Returned(j.path, onFile \cup {st.path})

OpenedAt(F, j, statErr, onFile, onDir) ==
    Opened(F, j, Follow(F, j.path), statErr, onFile, onDir)

ReadOp ==
    /\ opR = "none"
    /\ opR' = "read"
    /\ resR' = OpenedAt(fsR, safeJoinResolveFinal(fsR, Root, reqPath), "Stat", {},
                        Failed("IsDirectory"))
    /\ UNCHANGED <<fsR, reqPath>>
    /\ FrameR

\* handlePeek: resolve fully, readWindow (Open, Stat, Seek, Read), then Lstat.
\* The final Lstat of handlePeek reads the metadata of the resolved path.
PeekAt(F, j) == OpenedAt(F, j, "Open", {j.path}, Failed("IsDirectory"))

PeekOp ==
    /\ opR = "none"
    /\ opR' = "peek"
    /\ resR' = PeekAt(fsR, safeJoinResolveFinal(fsR, Root, reqPath))
    /\ UNCHANGED <<fsR, reqPath>>
    /\ FrameR

\* handleList: resolve fully, Stat; a directory is listed by ReadDir or Walk
\* (both report entries by Lstat, never following them), a file is one entry.
ListAt(F, j, recursive) ==
    OpenedAt(F, j, "Stat", {},
             Returned(j.path, IF recursive THEN Descendants(F, j.path)
                              ELSE Children(F, j.path)))

ListOp ==
    /\ opR = "none"
    /\ opR' = "list"
    /\ \E recursive \in BOOLEAN :
         resR' = ListAt(fsR, safeJoinResolveFinal(fsR, Root, reqPath), recursive)
    /\ UNCHANGED <<fsR, reqPath>>
    /\ FrameR

NextR == SafeJoinOp \/ ReadOp \/ PeekOp \/ ListOp

----------------------------------------------------------------------------
(* Properties of the resolver *)

\* Where a request points lexically: absolute as it is, relative under Root.
LexicalPath(req) ==
    LET c == Clean(requestString(req))
    IN  IF IsAbs(c) THEN c ELSE Clean(Root \o Sep \o c)

\* Containment by path components (no string comparison).
UnderRoot(p) ==
    LET r == Comps(Root)
        c == Comps(p)
    IN  Len(r) <= Len(c) /\ SubSeq(c, 1, Len(r)) = r

\* A path with the symlinks of its parent directory chain resolved; the path
\* itself when the chain does not resolve.
PhysicalParent(F, p) ==
    LET r == EvalSymlinks(F, SplitDir(p))
    IN  IF r.err = "" THEN Join2(r.path, SplitBase(p)) ELSE p

EscapesRoot(F, req) ==
    /\ req # <<>>
    /\ ~UnderRoot(LexicalPath(req))
    /\ ~UnderRoot(PhysicalParent(F, LexicalPath(req)))

SharesRootPrefix(F, req) ==
    /\ EscapesRoot(F, req)
    /\ HasPrefix(LexicalPath(req), Root)

\* C29: a path that has Root only as a string prefix (/re for Root /r) is
\* refused with PathEscape, a request for Root itself is resolved to Root,
\* and every path returned is Root or below it component by component.
C29_SeparatorPrefix ==
    opR # "none" =>
        /\ SharesRootPrefix(fsR, reqPath) => resR.err = "PathEscape"
        /\ (opR = "safeJoin" /\ reqPath # <<>> /\ LexicalPath(reqPath) = Root)
              => (resR.err = "" /\ resR.path = Root)
        /\ resR.err = "" => UnderRoot(resR.path)

C29_Witness ==
    /\ opR = "safeJoin"
    /\ SharesRootPrefix(fsR, reqPath)
    /\ ~HasPrefix(reqPath, FileScheme)
    /\ LexicalPath(reqPath) \in DOMAIN fsR
    /\ resR.err = "PathEscape"

\* A request for Root itself, accepted.
C29_RootAccepted ==
    /\ opR = "safeJoin"
    /\ LexicalPath(reqPath) = Root
    /\ resR.err = "" /\ resR.path = Root

\* The request names a symlink inside Root whose target exists outside Root.
NamesEscapingLink(F, req) ==
    LET l == LexicalPath(req)
        t == EvalSymlinks(F, l)
    IN  /\ req # <<>>
        /\ l \in DOMAIN F
        /\ F[l].kind = "symlink"
        /\ UnderRoot(l)
        /\ t.err = ""
        /\ ~UnderRoot(t.path)

\* C7: read, peek and list of a symlink inside Root whose target is outside
\* Root fail with the symlink-escape error, and no successful read, peek or
\* list returns content or metadata of a file outside Root.
C7_SymlinkEscapeOnRead ==
    opR \in {"read", "peek", "list"} =>
        /\ NamesEscapingLink(fsR, reqPath) => resR.err = "SymlinkEscape"
        /\ \A p \in resR.src : UnderRoot(p)

C7_Witness ==
    /\ opR = "list"
    /\ NamesEscapingLink(fsR, reqPath)
    /\ fsR[EvalSymlinks(fsR, LexicalPath(reqPath)).path].kind = "dir"
    /\ resR.err = "SymlinkEscape"

\* C8: a path safeJoin returns is under Root with the symlinks of its parent
\* directory chain resolved, for absolute and for relative request paths.
C8_ResolvedUnderRoot ==
    (opR = "safeJoin" /\ resR.err = "")
        => UnderRoot(PhysicalParent(fsR, resR.path))

\* The same for relative request paths only.
C8_RelativeOnly ==
    (opR = "safeJoin" /\ resR.err = "" /\ ~IsAbs(Clean(requestString(reqPath))))
        => UnderRoot(PhysicalParent(fsR, resR.path))

----------------------------------------------------------------------------
(* Files, the advisory lock and the atomic writer *)

\* One tick of the clock is one backoff interval of the retry loop.
Backoff == 1

\* OpenFile(lock, O_CREATE|O_EXCL|O_WRONLY) succeeds iff the file is absent.
CanCreateNoExcl(s) == TRUE
CanCreate(s) == ~s.exists

\* time.Since(info.ModTime()) > 10*time.Minute. A sentinel written during a
\* behaviour stays younger than that: callers hold the lock for one file
\* operation, and the longest wait is one lock timeout.
IsStaleNever(s) == FALSE
IsStale(s) == s.stale

Procs == DOMAIN pc

InLoop(p) == pc[p] \in {"lock_open", "lock_stat", "lock_remove", "lock_deadline", "lock_sleep"}

\* The caller is between a successful acquireLock and its release.
Holding(p) ==
    pc[p] \in {"locked", "aw_create", "aw_write", "aw_chmod", "aw_close", "aw_rename",
               "aw_win_remove", "aw_win_rename", "ap_open", "ap_write", "release"}

\* The handler returns: its local variables are gone.
DropLocals(p) ==
    /\ pre' = [pre EXCEPT ![p] = FALSE]
    /\ buf' = [buf EXCEPT ![p] = <<>>]
    /\ elapsed' = [elapsed EXCEPT ![p] = 0]
    /\ sleepLeft' = [sleepLeft EXCEPT ![p] = 0]
    /\ waits' = [waits EXCEPT ![p] = 0]
    /\ evicted' = [evicted EXCEPT ![p] = FALSE]

\* acquireLock entry: deadline := time.Now().Add(timeout).
EnterLock(p) ==
    /\ pc' = [pc EXCEPT ![p] = "lock_open"]
    /\ elapsed' = [elapsed EXCEPT ![p] = 0]
    /\ sleepLeft' = [sleepLeft EXCEPT ![p] = 0]
    /\ waits' = [waits EXCEPT ![p] = 0]
    /\ evicted' = [evicted EXCEPT ![p] = FALSE]

LockOpen(p) ==
    /\ pc[p] = "lock_open"
    /\ IF CanCreate(sentinel)
       THEN /\ sentinel' = FreshSentinel(p)
            /\ pc' = [pc EXCEPT ![p] = "locked"]
       ELSE /\ pc' = [pc EXCEPT ![p] = "lock_stat"]
            /\ UNCHANGED sentinel
    /\ UNCHANGED <<goos, target, tmp, call, pre, buf, elapsed, sleepLeft, waits,
                   evicted, res, faults>>
    /\ FrameW

LockStat(p) ==
    /\ pc[p] = "lock_stat"
    /\ pc' = [pc EXCEPT ![p] = IF sentinel.exists /\ IsStale(sentinel)
                               THEN "lock_remove" ELSE "lock_deadline"]
    /\ UNCHANGED <<goos, target, sentinel, tmp, call, pre, buf, elapsed, sleepLeft,
                   waits, evicted, res, faults>>
    /\ FrameW

\* _ = os.Remove(lock); continue: the error of the Remove is dropped, and
\* the loop goes back to OpenFile without looking at the deadline.
LockRemove(p) ==
    /\ pc[p] = "lock_remove"
    /\ IF removeFails
       THEN UNCHANGED <<sentinel, evicted>>
       ELSE /\ sentinel' = NoSentinel
            /\ evicted' = [evicted EXCEPT ![p] = TRUE]
    /\ pc' = [pc EXCEPT ![p] = "lock_open"]
    /\ UNCHANGED <<goos, target, tmp, call, pre, buf, elapsed, sleepLeft, waits,
                   res, faults>>
    /\ FrameW

\* if time.Now().After(deadline) { return error }; time.Sleep(50ms)
LockDeadline(p) ==
    /\ pc[p] = "lock_deadline"
    /\ IF elapsed[p] > call[p].timeout
       THEN /\ res' = [res EXCEPT ![p] = "LockTimeout"]
            /\ pc' = [pc EXCEPT ![p] = "done"]
            /\ DropLocals(p)
       ELSE /\ sleepLeft' = [sleepLeft EXCEPT ![p] = Backoff]
            /\ waits' = [waits EXCEPT ![p] = waits[p] + 1]
            /\ pc' = [pc EXCEPT ![p] = "lock_sleep"]
            /\ UNCHANGED <<res, pre, buf, elapsed, evicted>>
    /\ UNCHANGED <<goos, target, sentinel, tmp, call, faults>>
    /\ FrameW

LockWake(p) ==
    /\ pc[p] = "lock_sleep"
    /\ sleepLeft[p] = 0
    /\ pc' = [pc EXCEPT ![p] = "lock_open"]
    /\ UNCHANGED <<goos, target, sentinel, tmp, call, pre, buf, elapsed, sleepLeft,
                   waits, evicted, res, faults>>
    /\ FrameW

\* Time passes by one backoff interval for every caller inside acquireLock.
Tick ==
    /\ \E p \in Procs : InLoop(p) /\ (elapsed[p] <= call[p].timeout \/ sleepLeft[p] > 0)
    /\ elapsed' = [p \in Procs |->
                     IF InLoop(p) /\ elapsed[p] <= call[p].timeout
                     THEN elapsed[p] + 1 ELSE elapsed[p]]
    /\ sleepLeft' = [p \in Procs |-> IF sleepLeft[p] > 0 THEN sleepLeft[p] - 1 ELSE 0]
    /\ UNCHANGED <<goos, target, sentinel, tmp, pc, call, pre, buf, waits, evicted,
                   res, faults>>
    /\ FrameW

\* release: os.Remove(lock), whatever file is there now.
Release(p) ==
    /\ pc[p] = "release"
    /\ sentinel' = NoSentinel
    /\ pc' = [pc EXCEPT ![p] = "done"]
    /\ DropLocals(p)
    /\ UNCHANGED <<goos, target, tmp, call, res, faults>>
    /\ FrameW

----------------------------------------------------------------------------
(* handleWrite and handleEdit *)

WriteCall(st, data, s, e) ==
    [st |-> st, data |-> data, s |-> s, e |-> e, pat |-> "", timeout |-> WriteTimeout]
EditCall(pat, rep) ==
    [st |-> "edit", data |-> rep, s |-> 0, e |-> 0, pat |-> pat, timeout |-> WriteTimeout]
NoCall == [st |-> "", data |-> <<>>, s |-> 0, e |-> 0, pat |-> "", timeout |-> 0]

Calls ==
    { WriteCall("overwrite", <<"A", "B">>, 0, 0),
      WriteCall("no_clobber", <<"N">>, 0, 0),
      WriteCall("append", <<"C", "D">>, 0, 0),
      WriteCall("prepend", <<"Z">>, 0, 0),
      WriteCall("replace_range", <<"X", "Y">>, 0, 1),
      EditCall("A", <<"E">>) }

\* strings.ReplaceAll(old, pattern, replace) for a one-byte pattern.
RECURSIVE ReplaceAll(_, _, _)
ReplaceAll(old, pat, rep) ==
    IF old = <<>> THEN <<>>
    ELSE (IF Head(old) = pat THEN rep ELSE <<Head(old)>>) \o ReplaceAll(Tail(old), pat, rep)

\* old[:s] + data + old[e:]
SpliceInPlace(old, s, e, data) ==
    SubSeq(old, 1, s) \o data \o SubSeq(old, s + Len(data) + 1, Len(old))
Splice(old, s, e, data) == SubSeq(old, 1, s) \o data \o SubSeq(old, e + 1, Len(old))

ValidRangeNoLower(old, s, e) == ~(e < s \/ e > Len(old))
ValidRange(old, s, e) == ~(s < 0 \/ e < s \/ e > Len(old))

UnchangedLock == UNCHANGED <<elapsed, sleepLeft, waits, evicted>>

\* The handler is called (arguments decoded, path resolved).
Start(p) ==
    /\ pc[p] = "idle"
    /\ \E c \in Calls : call' = [call EXCEPT ![p] = c]
    /\ pc' = [pc EXCEPT ![p] = "prestat"]
    /\ UNCHANGED <<goos, target, sentinel, tmp, pre, buf, res, faults>>
    /\ UnchangedLock
    /\ FrameW

\* os.Lstat(full) before the lock; handleEdit returns when the target is
\* missing. Then acquireLock is entered.
PreStat(p) ==
    /\ pc[p] = "prestat"
    /\ IF call[p].st = "edit" /\ ~target.exists
       THEN /\ res' = [res EXCEPT ![p] = "NotFound"]
            /\ pc' = [pc EXCEPT ![p] = "done"]
            /\ UNCHANGED pre
            /\ UnchangedLock
       ELSE /\ pre' = [pre EXCEPT ![p] = target.exists]
            /\ EnterLock(p)
            /\ UNCHANGED res
    /\ UNCHANGED <<goos, target, sentinel, tmp, call, buf, faults>>
    /\ FrameW

\* An error return that skips the deferred release.
FailNoRelease(p, e) ==
    /\ res' = [res EXCEPT ![p] = e]
    /\ pc' = [pc EXCEPT ![p] = "done"]

\* An error return under the lock: the deferred release() runs.
Fail(p, e) ==
    /\ res' = [res EXCEPT ![p] = e]
    /\ pc' = [pc EXCEPT ![p] = "release"]

Stage(p, b) ==
    /\ buf' = [buf EXCEPT ![p] = b]
    /\ pc' = [pc EXCEPT ![p] = "aw_create"]
    /\ UNCHANGED res

\* A handler that calls acquireLock again while it holds the lock.
StrategyRelock(p) ==
    /\ pc[p] = "locked"
    /\ EnterLock(p)
    /\ UNCHANGED <<goos, target, sentinel, tmp, call, pre, buf, res, faults>>
    /\ FrameW

\* strategyNoClobber: "if preErr == nil" returns the exists error.
NoClobberNeverRefused(exists) == FALSE
NoClobberRefused(exists) == exists

\* The strategy switch of handleWrite, and the body of handleEdit, up to the
\* call of atomicWrite or the opening of the file for append.
Strategy(p) ==
    /\ pc[p] = "locked"
    /\ LET c == call[p] IN
       CASE c.st = "no_clobber" ->
              IF NoClobberRefused(pre[p]) THEN Fail(p, "AlreadyExists") /\ UNCHANGED buf
              ELSE Stage(p, c.data)
         [] c.st = "overwrite" -> Stage(p, c.data)
         [] c.st = "append" ->
              /\ pc' = [pc EXCEPT ![p] = "ap_open"]
              /\ buf' = [buf EXCEPT ![p] = c.data]
              /\ UNCHANGED res
         [] c.st = "prepend" ->
              IF pre[p]
              THEN IF target.exists THEN Stage(p, c.data \o target.data)
                   ELSE Fail(p, "NotFound") /\ UNCHANGED buf
              ELSE Stage(p, c.data)
         [] c.st = "replace_range" ->
              IF ~pre[p] \/ ~target.exists THEN Fail(p, "NotFound") /\ UNCHANGED buf
              ELSE IF ~ValidRange(target.data, c.s, c.e)
                   THEN Fail(p, "InvalidRange") /\ UNCHANGED buf
              ELSE Stage(p, Splice(target.data, c.s, c.e, c.data))
         [] c.st = "edit" ->
              IF ~target.exists THEN Fail(p, "NotFound") /\ UNCHANGED buf
              ELSE Stage(p, ReplaceAll(target.data, c.pat, c.data))
    /\ UNCHANGED <<goos, target, sentinel, tmp, call, pre, faults>>
    /\ UnchangedLock
    /\ FrameW

----------------------------------------------------------------------------
(* atomicWrite: CreateTemp, Write, Chmod, Close, Rename; the temp file is  *)
(* removed on every return.                                                *)

\* The content of the temp file after a successful tmp.Write(data).
StagedShort(data) == SubSeq(data, 1, Len(data) - 1)
Staged(data) == data

\* tmp.Write(data) writes the temp file in the target's directory, never the
\* target itself.
WriteInPlace(t, data) == [target |-> FileOf(data), tmp |-> FileOf(<<>>)]
WriteTemp(t, data) == [target |-> t, tmp |-> FileOf(Staged(data))]

\* A failing step returns its error; the deferred os.Remove(tmpName) runs.
AwFail(p, e) ==
    /\ faults < MaxFaults
    /\ faults' = faults + 1
    /\ tmp' = [tmp EXCEPT ![p] = Absent]
    /\ Fail(p, e)

AwCreate(p) ==
    /\ pc[p] = "aw_create"
    /\ \/ /\ tmp' = [tmp EXCEPT ![p] = FileOf(<<>>)]
          /\ pc' = [pc EXCEPT ![p] = "aw_write"]
          /\ UNCHANGED <<res, faults>>
       \/ AwFail(p, "CreateTempError")
    /\ UNCHANGED <<goos, target, sentinel, call, pre, buf>>
    /\ UnchangedLock
    /\ FrameW

AwWrite(p) ==
    /\ pc[p] = "aw_write"
    /\ \/ /\ LET w == WriteTemp(target, buf[p]) IN
               /\ tmp' = [tmp EXCEPT ![p] = w.tmp]
               /\ target' = w.target
          /\ pc' = [pc EXCEPT ![p] = "aw_chmod"]
          /\ UNCHANGED <<res, faults>>
       \/ AwFail(p, "WriteError") /\ UNCHANGED target
    /\ UNCHANGED <<goos, sentinel, call, pre, buf>>
    /\ UnchangedLock
    /\ FrameW

AwChmod(p) ==
    /\ pc[p] = "aw_chmod"
    /\ \/ /\ pc' = [pc EXCEPT ![p] = "aw_close"]
          /\ UNCHANGED <<tmp, res, faults>>
       \/ AwFail(p, "ChmodError")
    /\ UNCHANGED <<goos, target, sentinel, call, pre, buf>>
    /\ UnchangedLock
    /\ FrameW

AwClose(p) ==
    /\ pc[p] = "aw_close"
    /\ \/ /\ pc' = [pc EXCEPT ![p] = "aw_rename"]
          /\ UNCHANGED <<tmp, res, faults>>
       \/ AwFail(p, "CloseError")
    /\ UNCHANGED <<goos, target, sentinel, call, pre, buf>>
    /\ UnchangedLock
    /\ FrameW

\* os.Rename(tmpName, target) replaces the target in one step.
Publish(p) ==
    /\ target' = FileOf(tmp[p].data)
    /\ tmp' = [tmp EXCEPT ![p] = Absent]
    /\ res' = [res EXCEPT ![p] = "ok"]
    /\ pc' = [pc EXCEPT ![p] = "release"]

AwRename(p) ==
    /\ pc[p] = "aw_rename"
    /\ \/ Publish(p) /\ UNCHANGED faults
       \/ /\ goos # "windows"
          /\ AwFail(p, "RenameError")
          /\ UNCHANGED target
       \/ /\ goos = "windows"
          /\ faults < MaxFaults
          /\ faults' = faults + 1
          /\ pc' = [pc EXCEPT ![p] = "aw_win_remove"]
          /\ UNCHANGED <<target, tmp, res>>
    /\ UNCHANGED <<goos, sentinel, call, pre, buf>>
    /\ UnchangedLock
    /\ FrameW

\* Windows fallback: os.Remove(target), then os.Rename again.
AwWinRemove(p) ==
    /\ pc[p] = "aw_win_remove"
    /\ \/ /\ target' = Absent
          /\ pc' = [pc EXCEPT ![p] = "aw_win_rename"]
          /\ UNCHANGED <<tmp, res, faults>>
       \/ AwFail(p, "RemoveError") /\ UNCHANGED target
    /\ UNCHANGED <<goos, sentinel, call, pre, buf>>
    /\ UnchangedLock
    /\ FrameW

AwWinRename(p) ==
    /\ pc[p] = "aw_win_rename"
    /\ \/ Publish(p) /\ UNCHANGED faults
       \/ AwFail(p, "RenameError") /\ UNCHANGED target
    /\ UNCHANGED <<goos, sentinel, call, pre, buf>>
    /\ UnchangedLock
    /\ FrameW

----------------------------------------------------------------------------
(* append: OpenFile(O_CREATE|O_WRONLY|O_APPEND), then f.Write(data)        *)

ApOpen(p) ==
    /\ pc[p] = "ap_open"
    /\ \/ /\ target' = IF target.exists THEN target ELSE FileOf(<<>>)
          /\ pc' = [pc EXCEPT ![p] = "ap_write"]
          /\ UNCHANGED <<res, faults>>
       \/ /\ faults < MaxFaults
          /\ faults' = faults + 1
          /\ Fail(p, "OpenError")
          /\ UNCHANGED target
    /\ UNCHANGED <<goos, sentinel, tmp, call, pre, buf>>
    /\ UnchangedLock
    /\ FrameW

\* f.Write loops over write(2) until every byte is written or one fails;
\* each write(2) appends the bytes it accepts at the end of the file.
ApWrite(p) ==
    /\ pc[p] = "ap_write"
    /\ \/ \E k \in 1..Len(buf[p]) :
            /\ target' = FileOf(target.data \o SubSeq(buf[p], 1, k))
            /\ buf' = [buf EXCEPT ![p] = SubSeq(buf[p], k + 1, Len(buf[p]))]
            /\ IF k = Len(buf[p])
               THEN /\ res' = [res EXCEPT ![p] = "ok"]
                    /\ pc' = [pc EXCEPT ![p] = "release"]
               ELSE UNCHANGED <<res, pc>>
            /\ UNCHANGED faults
       \/ /\ faults < MaxFaults
          /\ faults' = faults + 1
          /\ Fail(p, "WriteError")
          /\ UNCHANGED <<target, buf>>
    /\ UNCHANGED <<goos, sentinel, tmp, call, pre>>
    /\ UnchangedLock
    /\ FrameW

----------------------------------------------------------------------------
(* Concurrent write and edit calls on one path *)

InitialTargets == {Absent, FileOf(<<"A">>)}

InitW ==
    /\ goos \in {"linux", "windows"}
    /\ target \in InitialTargets
    /\ sentinel \in {NoSentinel, StaleSentinel}
    /\ tmp = [p \in 1..NProcs |-> Absent]
    /\ pc = [p \in 1..NProcs |-> "idle"]
    /\ call = [p \in 1..NProcs |-> NoCall]
    /\ pre = [p \in 1..NProcs |-> FALSE]
    /\ buf = [p \in 1..NProcs |-> <<>>]
    /\ elapsed = [p \in 1..NProcs |-> 0]
    /\ sleepLeft = [p \in 1..NProcs |-> 0]
    /\ waits = [p \in 1..NProcs |-> 0]
    /\ evicted = [p \in 1..NProcs |-> FALSE]
    /\ res = [p \in 1..NProcs |-> ""]
    /\ faults = 0
    /\ IdleR
    /\ IdleS
    /\ IdleH /\ IdleD /\ IdleL /\ IdleC /\ IdleP
    /\ IdleM /\ IdleG /\ IdleI

NextW ==
    \/ \E p \in Procs : Start(p)
    \/ \E p \in Procs : PreStat(p)
    \/ \E p \in Procs : LockOpen(p)
    \/ \E p \in Procs : LockStat(p)
    \/ \E p \in Procs : LockRemove(p)
    \/ \E p \in Procs : LockDeadline(p)
    \/ \E p \in Procs : LockWake(p)
    \/ Tick
    \/ \E p \in Procs : Strategy(p)
    \/ \E p \in Procs : AwCreate(p)
    \/ \E p \in Procs : AwWrite(p)
    \/ \E p \in Procs : AwChmod(p)
    \/ \E p \in Procs : AwClose(p)
    \/ \E p \in Procs : AwRename(p)
    \/ \E p \in Procs : AwWinRemove(p)
    \/ \E p \in Procs : AwWinRename(p)
    \/ \E p \in Procs : ApOpen(p)
    \/ \E p \in Procs : ApWrite(p)
    \/ \E p \in Procs : Release(p)

Spec == InitW /\ [][NextW]_vars

----------------------------------------------------------------------------
(* Properties of concurrent writes *)

\* C2: for one path, at most one caller is between a successful acquireLock
\* and its release at any time, under every interleaving of the acquirers.
C2_MutualExclusion == Cardinality({p \in Procs : Holding(p)}) <= 1

\* handleWrite run with no other caller on the path: the file it leaves.
WriteAlone(c, t) ==
    CASE c.st = "overwrite" -> [ok |-> TRUE, file |-> FileOf(c.data)]
      [] c.st = "no_clobber" -> [ok |-> ~t.exists, file |-> FileOf(c.data)]
      [] c.st = "append" -> [ok |-> TRUE, file |-> FileOf(t.data \o c.data)]
      [] c.st = "prepend" -> [ok |-> TRUE, file |-> FileOf(c.data \o t.data)]
      [] c.st = "replace_range" ->
           [ok |-> t.exists /\ ValidRange(t.data, c.s, c.e),
            file |-> FileOf(Splice(t.data, c.s, c.e, c.data))]

\* handleEdit run with no other caller on the path.
EditAlone(c, t) == [ok |-> t.exists, file |-> FileOf(ReplaceAll(t.data, c.pat, c.data))]

Alone(c, t) == IF c.st = "edit" THEN EditAlone(c, t) ELSE WriteAlone(c, t)

\* The files left by running the calls of the callers in S one at a time, in
\* any order, each of them succeeding, starting from the file t.
RECURSIVE SerialOutcomes(_, _)
SerialOutcomes(S, t) ==
    IF S = {} THEN {t}
    ELSE UNION { LET r == Alone(call[p], t) IN
                   IF r.ok THEN SerialOutcomes(S \ {p}, r.file) ELSE {}
                 : p \in S }

\* C3: once every concurrent write or edit call on the path has returned
\* (none of them hit by an I/O failure), the file is what the successful
\* calls leave when applied one at a time in some order.
C3_Serializable ==
    ((\A p \in Procs : pc[p] = "done") /\ faults = 0)
        => \E t \in InitialTargets :
              target \in SerialOutcomes({p \in Procs : res[p] = "ok"}, t)

StagingSteps == {"aw_create", "aw_write", "aw_chmod", "aw_close"}

\* C4: every step of atomicWrite before the rename, the failing ones
\* included, leaves the target byte-identical; a caller whose staging fails
\* returns an error and its temp file is gone.
C4_StagingFailureKeepsTarget ==
    [][\A p \in Procs :
         (pc[p] \in StagingSteps /\ pc'[p] # pc[p])
            => /\ target' = target
               /\ pc'[p] = "release" => (res'[p] \notin {"", "ok"} /\ ~tmp'[p].exists)]_vars

\* A write whose staging failed with the original content still in place.
C4_Witness ==
    \E p \in Procs :
        /\ pc[p] = "release"
        /\ res[p] \in {"CreateTempError", "WriteError", "ChmodError", "CloseError"}
        /\ call[p].st = "overwrite"
        /\ target = FileOf(<<"A">>)

\* The complete content the call of p leaves when it is applied now.
Applied(p) == IF call[p].st = "append" THEN target.data \o call[p].data ELSE buf[p]

\* C5 (as stated): whenever the target changes under a reader's eyes, it
\* goes from the complete pre-call content to the complete post-call content.
C5_AllOrNothing ==
    [][\A p \in Procs :
         (pc'[p] # pc[p] /\ target' # target) => target' = FileOf(Applied(p))]_vars

\* C5 (amended): for overwrite, no_clobber, prepend, replace_range and edit
\* the target changes only when the staged temp file is renamed over it, and
\* it then holds the complete new content; append (in-place write) and the
\* Windows remove-then-rename fallback are the exceptions.
C5_StagedAllOrNothing ==
    [][\A p \in Procs :
         (pc'[p] # pc[p] /\ target' # target
            /\ call[p].st # "append" /\ pc[p] # "aw_win_remove")
            => (pc[p] \in {"aw_rename", "aw_win_rename"} /\ target' = FileOf(buf[p]))]_vars

\* A replace_range call has just renamed its complete result over the target.
C5_Witness ==
    \E p \in Procs :
        /\ pc[p] = "release"
        /\ res[p] = "ok"
        /\ call[p].st = "replace_range"
        /\ target = FileOf(<<"X", "Y">>)

\* The results of a call that returned after acquireLock had succeeded.
AfterLockResults ==
    {"ok", "AlreadyExists", "NotFound", "InvalidRange", "CreateTempError", "WriteError",
     "ChmodError", "CloseError", "RenameError", "RemoveError", "OpenError"}

\* C26: when a write or edit call has returned, with success or with any
\* error, the lock file it created does not exist.
C26_LockReleasedOnReturn ==
    \A p \in Procs :
        pc[p] = "done" => ~(sentinel.exists /\ sentinel.owner = p)

\* A call failed under the lock and has returned; no lock file is left.
C26_Witness ==
    \E p \in Procs :
        /\ pc[p] = "done"
        /\ res[p] \in AfterLockResults \ {"ok"}
        /\ call[p].st # "edit"
        /\ ~sentinel.exists

\* C28: a caller that is waiting in acquireLock holds no lock (it never
\* waits while it holds one), a caller holds the lock only after its own
\* acquireLock, and as long as a call has not returned some step can be
\* taken: callers never block one another for good.
C28_NoNestedLocks ==
    /\ \A p \in Procs : InLoop(p) => ~(sentinel.exists /\ sentinel.owner = p)
    /\ \A p \in Procs : (sentinel.exists /\ sentinel.owner = p) => Holding(p)
    /\ (\E p \in Procs : pc[p] # "done") => ENABLED NextW

\* One caller holds the lock while the other waits for it.
C28_Witness ==
    \E p, q \in Procs :
        /\ Holding(p) /\ sentinel = FreshSentinel(p)
        /\ pc[q] = "lock_sleep"

\* The no_clobber calls that have returned with success.
NoClobberWinners ==
    {p \in Procs : pc[p] = "done" /\ call[p].st = "no_clobber" /\ res[p] = "ok"}

\* C33: of the no_clobber writes that run concurrently on one path, at most
\* one succeeds; the others fail with the exists error, so the file the
\* winner wrote is not replaced.
C33_NoClobberUnderLock ==
    /\ Cardinality(NoClobberWinners) <= 1
    /\ \A p \in Procs :
           (pc[p] = "done" /\ call[p].st = "no_clobber" /\ NoClobberWinners \ {p} # {})
               => res[p] = "AlreadyExists"

\* C34: the eviction of a stale lock file removes only a lock file that is
\* stale: the os.Remove of acquireLock never deletes a fresh lock file that
\* another caller has created since the Stat.
C34_EvictsOnlyStale ==
    [][\A p \in Procs :
          (pc[p] = "lock_remove" /\ pc'[p] = "lock_open")
              => (sentinel.exists => sentinel.stale)]_vars

\* A caller is about to remove, as stale, the fresh lock file of a holder.
C34_FreshAboutToGo ==
    \E p, q \in Procs :
        /\ pc[p] = "lock_remove"
        /\ Holding(q) /\ sentinel = FreshSentinel(q)

\* C35: release removes only the lock file its own acquireLock created: it
\* never deletes a lock file that by now belongs to another caller.
C35_ReleaseOwnOnly ==
    [][\A p \in Procs :
          (pc[p] = "release" /\ pc'[p] = "done")
              => (sentinel.exists => sentinel.owner = p)]_vars

\* A caller is about to release while the lock file is another caller's.
C35_ForeignAtRelease ==
    \E p, q \in Procs :
        /\ p # q /\ pc[p] = "release"
        /\ Holding(q) /\ sentinel = FreshSentinel(q)

----------------------------------------------------------------------------
(* The lock tests: a holder, a contender that starts while the lock is     *)
(* held, and a later caller that starts after the release.                 *)

\* time.Second and 300*time.Millisecond, in backoff intervals of 50 ms.
HolderTimeout == 20
ContenderTimeout == 6

First == 1
Second == 2
Later == 3

LockCall(t) == [st |-> "lock", data |-> <<>>, s |-> 0, e |-> 0, pat |-> "", timeout |-> t]

TestAcquire(p) ==
    /\ pc[p] = "idle"
    /\ CASE p = First -> TRUE
         [] p = Second -> pc[First] = "locked"
         [] p = Later -> pc[First] = "done" /\ pc[Second] \in {"idle", "done"}
    /\ call' = [call EXCEPT ![p] = LockCall(IF p = Second THEN ContenderTimeout
                                                      ELSE HolderTimeout)]
    /\ EnterLock(p)
    /\ UNCHANGED <<goos, target, sentinel, tmp, pre, buf, res, faults>>
    /\ FrameW

\* The test is done with the lock and calls the release function.
TestUnlock(p) ==
    /\ pc[p] = "locked"
    /\ pc' = [pc EXCEPT ![p] = "release"]
    /\ res' = [res EXCEPT ![p] = "ok"]
    /\ UNCHANGED <<goos, target, sentinel, tmp, call, pre, buf, faults>>
    /\ UnchangedLock
    /\ FrameW

InitT ==
    /\ goos = "linux"
    /\ target = FileOf(<<"A">>)
    /\ sentinel \in {NoSentinel, StaleSentinel}
    /\ tmp = [p \in {First, Second, Later} |-> Absent]
    /\ pc = [p \in {First, Second, Later} |-> "idle"]
    /\ call = [p \in {First, Second, Later} |-> NoCall]
    /\ pre = [p \in {First, Second, Later} |-> FALSE]
    /\ buf = [p \in {First, Second, Later} |-> <<>>]
    /\ elapsed = [p \in {First, Second, Later} |-> 0]
    /\ sleepLeft = [p \in {First, Second, Later} |-> 0]
    /\ waits = [p \in {First, Second, Later} |-> 0]
    /\ evicted = [p \in {First, Second, Later} |-> FALSE]
    /\ res = [p \in {First, Second, Later} |-> ""]
    /\ faults = 0
    /\ IdleR
    /\ IdleS
    /\ IdleH /\ IdleD /\ IdleL /\ IdleC /\ IdleP
    /\ IdleM /\ IdleG /\ IdleI

NextT ==
    \/ \E p \in Procs : TestAcquire(p)
    \/ \E p \in Procs : LockOpen(p)
    \/ \E p \in Procs : LockStat(p)
    \/ \E p \in Procs : LockRemove(p)
    \/ \E p \in Procs : LockDeadline(p)
    \/ \E p \in Procs : LockWake(p)
    \/ Tick
    \/ \E p \in Procs : TestUnlock(p)
    \/ \E p \in Procs : Release(p)

SpecLockTest == InitT /\ [][NextT]_vars

\* C9: an acquire with a 300 ms timeout that starts while the lock is held
\* never succeeds while it is held, and returns LockTimeout if the lock is
\* still held when it returns; an acquire that starts after the release
\* succeeds at its first attempt, without sleeping.
C9_ContentionThenRelease ==
    /\ Holding(First) => ~Holding(Second)
    /\ (Holding(First) /\ pc[Second] = "done") => res[Second] = "LockTimeout"
    /\ InLoop(Later) => (pc[Later] = "lock_open" /\ ~sentinel.exists)
    /\ Holding(Later) => waits[Later] = 0
    /\ res[Later] # "LockTimeout"

\* The contender timed out under the holder, the holder released, and the
\* later caller holds the lock.
C9_Witness ==
    /\ res[Second] = "LockTimeout"
    /\ pc[First] = "done"
    /\ pc[Later] = "locked"

\* C10: a caller that finds a stale sentinel removes it and is granted the
\* lock at its next attempt, never having slept: no caller checks its
\* deadline or sleeps under a stale sentinel.
C10_StaleEviction ==
    \A p \in Procs :
        /\ pc[p] \in {"lock_deadline", "lock_sleep"} => ~(sentinel.exists /\ sentinel.stale)
        /\ pc[p] = "lock_remove" => (sentinel.exists /\ sentinel.stale)
        /\ evicted[p] =>
             /\ waits[p] = 0
             /\ pc[p] = "lock_open" \/ Holding(p)
             /\ pc[p] = "lock_open" => ~sentinel.exists
             /\ Holding(p) => sentinel = FreshSentinel(p)

\* The caller evicted a stale sentinel and holds the lock without a sleep.
C10_Witness ==
    \E p \in Procs : evicted[p] /\ pc[p] = "locked" /\ waits[p] = 0 /\ elapsed[p] <= 1

SpecResolve == InitR /\ [][NextR]_vars

----------------------------------------------------------------------------
(* Scans: handleSearch, handleGlob and performSearch. A walker goroutine    *)
(* sends the entries it visits down a channel; the workers match them and  *)
(* add to the shared result slice until the limit is reached.              *)

Workers == DOMAIN wpc

\* An entry the walker visits: its place in the walk, what fs.DirEntry says
\* it is, and the lines of it that match (for handleGlob: whether its path
\* matches the pattern).
Entry(i, k, h) == [id |-> i, kind |-> k, hits |-> h]
NoEntry == [id |-> 0, hits |-> 0, left |-> 0]

\* Regular files with their matching lines, and a directory and a symlink
\* whose names match the pattern.
EntryShapes ==
    {<<"file", h>> : h \in 0..MaxHits} \cup {<<"dir", 1>>, <<"symlink", 1>>}

Trees == [1..MaxEntries -> EntryShapes]
WalkOf(t) == [i \in 1..MaxEntries |-> Entry(i, t[i][1], t[i][2])]

\* if d.IsDir() { return nil }; if d.Type()&os.ModeSymlink != 0 { return nil }
\* in the callbacks of handleSearch and performSearch; the callback of
\* handleGlob has neither.
SkipsEntry(kind, e) == kind # "glob" /\ e.kind \notin {"file", "noopen"}

Min(a, b) == IF a < b THEN a ELSE b

\* Matches numbered from the end of the file.
MatchOfBackwards(e, n) == [id |-> e.id, line |-> e.hits + 1 - n]

\* SearchMatch{Path, Line}: the n-th match taken from the entry.
MatchOf(e, n) == [id |-> e.id, line |-> n]

InitS ==
    /\ scanKind \in {"search", "glob", "perform"}
    /\ maxResults \in 1..MaxLimit
    /\ \E t \in Trees : walk = WalkOf(t) /\ tree = WalkOf(t)
    /\ walkPc = "visit"
    /\ files = <<>>
    /\ ctxDone = FALSE
    /\ matches = <<>>
    /\ matchCount = 0
    /\ wpc = [w \in 1..NWorkers |-> "recv"]
    /\ wcur = [w \in 1..NWorkers |-> NoEntry]
    /\ returned = FALSE
    /\ walkErr = ""
    /\ IdleR
    /\ IdleW
    /\ hist = <<>>
    /\ IdleD /\ IdleL /\ IdleC /\ IdleP
    /\ IdleM /\ IdleG /\ IdleI

\* os.Open succeeds on the file the worker holds.
Opens(cur) == tree[cur.id].kind # "noopen"

\* A callback that hands the error back to WalkDir.
OnWalkErrReturn(err) == err

\* if err != nil { return nil }: what the callback returns when WalkDir
\* hands it an error ("" for nil).
OnWalkErr(err) == ""

\* The WalkDir callback on an entry: "skip" or "send" (both return nil), or
\* the error it returns, which ends the walk.  A directory that cannot be
\* read is visited like any directory and then handed to the callback again
\* with the error of ReadDir.
walkFn(kind, e, done) ==
    IF done THEN "Canceled"
    ELSE IF e.kind = "blocked" /\ OnWalkErr("PermissionDenied") # ""
         THEN OnWalkErr("PermissionDenied")
    ELSE IF SkipsEntry(kind, e) THEN "skip"
    ELSE "send"

\* The error the handler returns after the walk: handleSearch and handleGlob
\* pass on a walkErr that is not context.Canceled, performSearch one met
\* while its context is not done.
scanErr ==
    IF scanKind = "perform"
    THEN (IF walkErr # "" /\ ~ctxDone THEN walkErr ELSE "")
    ELSE (IF walkErr # "" /\ walkErr # "Canceled" THEN walkErr ELSE "")

\* The WalkDir callback: stop when the context is done, else go on to send;
\* after the last entry (or the stop) the channel is closed.
WalkVisit ==
    /\ walkPc = "visit"
    /\ IF walk = <<>>
       THEN walkPc' = "done" /\ UNCHANGED <<walk, walkErr>>
       ELSE LET r == walkFn(scanKind, Head(walk), ctxDone)
            IN  CASE r = "skip" ->
                       walkPc' = "visit" /\ walk' = Tail(walk) /\ UNCHANGED walkErr
                  [] r = "send" ->
                       walkPc' = "send" /\ UNCHANGED <<walk, walkErr>>
                  [] OTHER ->
                       walkPc' = "done" /\ walkErr' = r /\ UNCHANGED walk
    /\ UNCHANGED <<scanKind, maxResults, files, ctxDone, matches, matchCount,
                   wpc, wcur, returned>>
    /\ FrameS

\* files <- path: blocks while the channel is full.
WalkSend ==
    /\ walkPc = "send"
    /\ Len(files) < ChanCap
    /\ files' = Append(files, Head(walk))
    /\ walk' = Tail(walk)
    /\ walkPc' = "visit"
    /\ UNCHANGED <<scanKind, maxResults, ctxDone, matches, matchCount, wpc, wcur,
                   returned, walkErr>>
    /\ FrameS

\* for path := range files: take an entry, or leave when the channel is
\* closed and drained.
WorkerRecv(w) ==
    /\ wpc[w] = "recv"
    /\ IF files # <<>>
       THEN /\ wcur' = [wcur EXCEPT ![w] = [id |-> Head(files).id,
                                            hits |-> Head(files).hits,
                                            left |-> Head(files).hits]]
            /\ files' = Tail(files)
            /\ wpc' = [wpc EXCEPT ![w] = "ctx"]
       ELSE /\ walkPc = "done"
            /\ wpc' = [wpc EXCEPT ![w] = "exit"]
            /\ UNCHANGED <<wcur, files>>
    /\ UNCHANGED <<scanKind, maxResults, walk, walkPc, ctxDone, matches, matchCount,
                   returned, walkErr>>
    /\ FrameS

\* if ctx.Err() != nil { return }, then the work on the entry starts.
WorkerCtx(w) ==
    /\ wpc[w] = "ctx"
    /\ wpc' = [wpc EXCEPT ![w] =
                 IF ctxDone THEN "exit"
                 ELSE CASE scanKind = "search" -> "scan"
                        [] scanKind = "glob" -> IF wcur[w].hits > 0 THEN "add" ELSE "recv"
                        [] scanKind = "perform" -> "limit"]
    /\ UNCHANGED <<scanKind, maxResults, walk, walkPc, files, ctxDone, matches,
                   matchCount, wcur, returned, walkErr>>
    /\ FrameS

\* handleSearch: f, err := os.Open(path); if err != nil { continue }; then
\* scanner.Scan() up to the next matching line, or the end of the file; the
\* context is not looked at between lines.
WorkerScan(w) ==
    /\ wpc[w] = "scan"
    /\ IF ~Opens(wcur[w]) \/ wcur[w].left = 0
       THEN /\ wpc' = [wpc EXCEPT ![w] = "recv"]
            /\ UNCHANGED wcur
       ELSE /\ wpc' = [wpc EXCEPT ![w] = "add"]
            /\ wcur' = [wcur EXCEPT ![w].left = @ - 1]
    /\ UNCHANGED <<scanKind, maxResults, walk, walkPc, files, ctxDone, matches,
                   matchCount, returned, walkErr>>
    /\ FrameS

\* The section under mu of handleSearch and of handleGlob. handleSearch
\* appends and then compares with max; handleGlob compares first as well.
WorkerAdd(w) ==
    /\ wpc[w] = "add"
    /\ IF scanKind = "glob" /\ Len(matches) >= maxResults
       THEN /\ wpc' = [wpc EXCEPT ![w] = "exit"]
            /\ UNCHANGED matches
       ELSE /\ matches' = Append(matches, MatchOf(wcur[w], wcur[w].hits - wcur[w].left))
            /\ wpc' = [wpc EXCEPT ![w] =
                         IF Len(matches) + 1 >= maxResults THEN "cancel"
                         ELSE IF scanKind = "glob" THEN "recv" ELSE "scan"]
    /\ UNCHANGED <<scanKind, maxResults, walk, walkPc, files, ctxDone, matchCount,
                   wcur, returned, walkErr>>
    /\ FrameS

\* mu.Unlock(); cancel(); return
WorkerCancel(w) ==
    /\ wpc[w] = "cancel"
    /\ ctxDone' = TRUE
    /\ wpc' = [wpc EXCEPT ![w] = "exit"]
    /\ UNCHANGED <<scanKind, maxResults, walk, walkPc, files, matches, matchCount,
                   wcur, returned, walkErr>>
    /\ FrameS

\* performSearch: if atomic.LoadInt32(&matchCount) >= max { return }
WorkerLimit(w) ==
    /\ wpc[w] = "limit"
    /\ wpc' = [wpc EXCEPT ![w] = IF matchCount >= maxResults THEN "exit" ELSE "file"]
    /\ UNCHANGED <<scanKind, maxResults, walk, walkPc, files, ctxDone, matches,
                   matchCount, wcur, returned, walkErr>>
    /\ FrameS

\* searchFile(path, ..., max - matchCount, ...): nothing if os.Open fails;
\* else it collects matches while it has fewer than maxMatches; left now
\* holds how many it found.
WorkerSearchFile(w) ==
    /\ wpc[w] = "file"
    /\ wcur' = [wcur EXCEPT ![w].left =
                  IF ~Opens(wcur[w]) \/ maxResults - matchCount <= 0 THEN 0
                  ELSE Min(wcur[w].hits, maxResults - matchCount)]
    /\ wpc' = [wpc EXCEPT ![w] = "merge"]
    /\ UNCHANGED <<scanKind, maxResults, walk, walkPc, files, ctxDone, matches,
                   matchCount, returned, walkErr>>
    /\ FrameS

\* A merge that keeps one match of a file.
TruncatedToOne(found, remaining) == 1

\* fileMatches[:remaining]
Truncated(found, remaining) == Min(found, remaining)

\* performSearch's section under mu: truncate to what is left of the limit,
\* append, store the count, cancel at the limit.
WorkerMerge(w) ==
    /\ wpc[w] = "merge"
    /\ IF wcur[w].left > 0 /\ Len(matches) < maxResults
       THEN /\ matches' = matches \o
                  [n \in 1..Truncated(wcur[w].left, maxResults - Len(matches))
                     |-> MatchOf(wcur[w], n)]
            /\ matchCount' = Len(matches')
            /\ ctxDone' = (ctxDone \/ Len(matches') >= maxResults)
       ELSE UNCHANGED <<matches, matchCount, ctxDone>>
    /\ wpc' = [wpc EXCEPT ![w] = "recv"]
    /\ UNCHANGED <<scanKind, maxResults, walk, walkPc, files, wcur, returned, walkErr>>
    /\ FrameS

\* wg.Wait(); walkWG.Wait(); out.Matches = matches
ScanReturn ==
    /\ ~returned
    /\ walkPc = "done"
    /\ \A w \in Workers : wpc[w] = "exit"
    /\ returned' = TRUE
    /\ UNCHANGED <<scanKind, maxResults, walk, walkPc, files, ctxDone, matches,
                   matchCount, wpc, wcur, walkErr>>
    /\ FrameS

NextS ==
    \/ WalkVisit
    \/ WalkSend
    \/ \E w \in Workers : WorkerRecv(w)
    \/ \E w \in Workers : WorkerCtx(w)
    \/ \E w \in Workers : WorkerScan(w)
    \/ \E w \in Workers : WorkerAdd(w)
    \/ \E w \in Workers : WorkerCancel(w)
    \/ \E w \in Workers : WorkerLimit(w)
    \/ \E w \in Workers : WorkerSearchFile(w)
    \/ \E w \in Workers : WorkerMerge(w)
    \/ ScanReturn

SpecScan == InitS /\ [][NextS]_vars

\* C6: for search and for glob, the shared result slice, and so the list
\* the handler returns, never holds more than maxResults entries.
C6_ResultBound == scanKind # "none" => Len(matches) <= maxResults

\* The bound for the handlers that test the limit before they append.
C6_CheckedBeforeAppend ==
    scanKind \in {"glob", "perform"} => Len(matches) <= maxResults

\* The matching lines in the files of the directory the scan was started on.
RECURSIVE HitsFrom(_, _)
HitsFrom(t, i) ==
    IF i > Len(t) THEN 0
    ELSE (IF t[i].kind = "file" THEN t[i].hits ELSE 0) + HitsFrom(t, i + 1)

\* C13: over a directory with N >= maxResults matching lines, a search that
\* has returned holds exactly maxResults matches.
C13_ExactlyMaxResults ==
    (returned /\ scanKind \in {"search", "perform"} /\ HitsFrom(tree, 1) >= maxResults)
        => Len(matches) = maxResults

\* The same for performSearch alone, which truncates each file's matches to
\* the room that is left.
C13_PerformExact ==
    (returned /\ scanKind = "perform" /\ HitsFrom(tree, 1) >= maxResults)
        => Len(matches) = maxResults

\* C25: once the limit is reached and the context is cancelled, the scan goes
\* on to its return: until the handler has returned, some goroutine of it can
\* take a step, so none is left blocked on the channel for good.
C25_NoTaskBlocked == (ctxDone /\ ~returned) => ENABLED NextS

\* The walker is past its look at the context and blocked in its send on the
\* full channel, and every worker has returned: nobody will receive.
C25_WalkerBlocked ==
    /\ ctxDone /\ ~returned
    /\ walkPc = "send" /\ Len(files) = ChanCap
    /\ \A w \in Workers : wpc[w] = "exit"

\* C30: only regular files that are no symlinks go down the channel, and no
\* result of a search or a glob is a directory or a symlink.
C30_OnlyRegularFiles ==
    /\ \A i \in DOMAIN files : files[i].kind = "file"
    /\ \A i \in DOMAIN matches : tree[matches[i].id].kind = "file"

\* The same for the two searches, whose callbacks skip both kinds.
C30_SearchOnlyRegularFiles ==
    scanKind \in {"search", "perform"} => C30_OnlyRegularFiles

\* A glob has returned a directory or a symlink among its matches.
C30_GlobReturnsDirectory ==
    /\ returned /\ scanKind = "glob"
    /\ \E i \in DOMAIN matches : tree[matches[i].id].kind # "file"

----------------------------------------------------------------------------
(* One caller making calls one after another on a path that starts absent  *)
(* (the strategy test of TestHandleWriteStrategies, and retried calls).    *)

MaxCalls == 4        \* calls the sequential caller makes

Caller == 1

SeqCalls ==
    { WriteCall("overwrite", <<"A">>, 0, 0),
      WriteCall("no_clobber", <<"N">>, 0, 0),
      WriteCall("append", <<"C">>, 0, 0),
      WriteCall("prepend", <<"Z">>, 0, 0),
      WriteCall("replace_range", <<"X", "Y">>, 1, 2),
      WriteCall("replace_range", <<"X", "Y">>, 0 - 1, 0),
      WriteCall("replace_range", <<"X", "Y">>, 2, 1),
      EditCall("A", <<"A", "A">>) }

InitQ ==
    /\ goos = "linux"
    /\ target = Absent
    /\ sentinel \in {NoSentinel, StaleSentinel}
    /\ tmp = [p \in {Caller} |-> Absent]
    /\ pc = [p \in {Caller} |-> "idle"]
    /\ call = [p \in {Caller} |-> NoCall]
    /\ pre = [p \in {Caller} |-> FALSE]
    /\ buf = [p \in {Caller} |-> <<>>]
    /\ elapsed = [p \in {Caller} |-> 0]
    /\ sleepLeft = [p \in {Caller} |-> 0]
    /\ waits = [p \in {Caller} |-> 0]
    /\ evicted = [p \in {Caller} |-> FALSE]
    /\ res = [p \in {Caller} |-> ""]
    /\ faults = 0
    /\ hist = <<>>
    /\ tree = <<>>
    /\ IdleR
    /\ IdleS
    /\ IdleD /\ IdleL /\ IdleC /\ IdleP
    /\ IdleM /\ IdleG /\ IdleI

\* The next call of the caller is made (arguments decoded, path resolved).
SeqStart(p) ==
    /\ pc[p] = "idle"
    /\ Len(hist) < MaxCalls
    /\ \E c \in SeqCalls : call' = [call EXCEPT ![p] = c]
    /\ pc' = [pc EXCEPT ![p] = "prestat"]
    /\ res' = [res EXCEPT ![p] = ""]
    /\ UNCHANGED <<goos, target, sentinel, tmp, pre, buf, faults>>
    /\ UnchangedLock
    /\ UNCHANGED <<varsR, varsS, hist, tree, varsD, varsL, varsC, varsP, varsM, varsG, varsI>>

\* The call has returned to the caller, who notes the result and the file.
SeqReturn(p) ==
    /\ pc[p] = "done"
    /\ hist' = Append(hist, [call |-> call[p], res |-> res[p], file |-> target])
    /\ pc' = [pc EXCEPT ![p] = "idle"]
    /\ UNCHANGED <<goos, target, sentinel, tmp, call, pre, buf, res, faults>>
    /\ UnchangedLock
    /\ UNCHANGED <<varsR, varsS, tree, varsD, varsL, varsC, varsP, varsM, varsG, varsI>>

NextQ ==
    \/ SeqStart(Caller)
    \/ PreStat(Caller)
    \/ LockOpen(Caller)
    \/ LockStat(Caller)
    \/ LockRemove(Caller)
    \/ Strategy(Caller)
    \/ AwCreate(Caller)
    \/ AwWrite(Caller)
    \/ AwChmod(Caller)
    \/ AwClose(Caller)
    \/ AwRename(Caller)
    \/ ApOpen(Caller)
    \/ ApWrite(Caller)
    \/ Release(Caller)
    \/ SeqReturn(Caller)

SpecSeq == InitQ /\ [][NextQ]_vars

\* The file before the k-th call of the history.
Before(k) == IF k = 1 THEN Absent ELSE hist[k - 1].file

----------------------------------------------------------------------------
(* Properties of sequential writes *)

Calls_k(st) == {k \in DOMAIN hist : hist[k].call.st = st}

\* C11: write(p, no_clobber, x) on a pre-existing p fails with AlreadyExists
\* and leaves the content of p as it was.
C11_NoClobberKeepsExisting ==
    \A k \in Calls_k("no_clobber") :
        Before(k).exists =>
            /\ hist[k].res = "AlreadyExists"
            /\ hist[k].file = Before(k)

C11_Witness ==
    \E k \in Calls_k("no_clobber") :
        /\ Before(k).exists
        /\ Before(k).data # hist[k].call.data
        /\ hist[k].res = "AlreadyExists"

\* The calls of TestHandleWriteStrategies after the no_clobber pair.
RoundTrip ==
    << WriteCall("overwrite", <<"A">>, 0, 0),
       WriteCall("append", <<"C">>, 0, 0),
       WriteCall("prepend", <<"Z">>, 0, 0),
       WriteCall("replace_range", <<"X", "Y">>, 1, 2) >>

RoundTripDone ==
    /\ Len(hist) = Len(RoundTrip)
    /\ \A k \in DOMAIN hist : hist[k].call = RoundTrip[k] /\ hist[k].res = "ok"

\* C12: a successful append leaves old+payload, a successful prepend
\* payload+old, a successful replace_range old[:start]+payload+old[end:];
\* overwrite "A", append "C", prepend "Z" from an absent file give "ZAC", and
\* replace_range(1,2) with "XY" then gives "ZXYC".
C12_StrategyRoundTrip ==
    /\ \A k \in Calls_k("append") :
          hist[k].res = "ok" =>
              hist[k].file = FileOf(Before(k).data \o hist[k].call.data)
    /\ \A k \in Calls_k("prepend") :
          hist[k].res = "ok" =>
              hist[k].file = FileOf(hist[k].call.data \o Before(k).data)
    /\ \A k \in Calls_k("replace_range") :
          hist[k].res = "ok" =>
              hist[k].file =
                  FileOf(SubSeq(Before(k).data, 1, hist[k].call.s)
                         \o hist[k].call.data
                         \o SubSeq(Before(k).data, hist[k].call.e + 1,
                                   Len(Before(k).data)))
    /\ RoundTripDone =>
          /\ hist[3].file = FileOf(<<"Z", "A", "C">>)
          /\ hist[4].file = FileOf(<<"Z", "X", "Y", "C">>)

C12_Witness == RoundTripDone /\ target = FileOf(<<"Z", "X", "Y", "C">>)

\* The range of the k-th call is outside the file the call found.
BadRange(k) ==
    \/ hist[k].call.s < 0
    \/ hist[k].call.e < hist[k].call.s
    \/ hist[k].call.e > Len(Before(k).data)

\* C14: replace_range(start, end) on an existing regular file fails with
\* InvalidRange, changing nothing, if start < 0, end < start or end > the
\* file's length; otherwise it never fails with InvalidRange, and when it
\* succeeds the file is exactly old[:start] + payload + old[end:].
C14_ReplaceRange ==
    \A k \in Calls_k("replace_range") :
        Before(k).exists =>
            /\ BadRange(k) =>
                  hist[k].res = "InvalidRange" /\ hist[k].file = Before(k)
            /\ ~BadRange(k) =>
                  /\ hist[k].res # "InvalidRange"
                  /\ hist[k].res = "ok" =>
                        hist[k].file =
                            FileOf(SubSeq(Before(k).data, 1, hist[k].call.s)
                                   \o hist[k].call.data
                                   \o SubSeq(Before(k).data, hist[k].call.e + 1,
                                             Len(Before(k).data)))
                  /\ hist[k].res # "ok" => hist[k].file = Before(k)

\* All three ways of being out of range, each on an existing file.
C14_Witness ==
    /\ \E k \in Calls_k("replace_range") :
          Before(k).exists /\ hist[k].call.s < 0 /\ hist[k].res = "InvalidRange"
    /\ \E k \in Calls_k("replace_range") :
          /\ Before(k).exists /\ hist[k].call.e < hist[k].call.s
          /\ hist[k].res = "InvalidRange"
    /\ \E k \in Calls_k("replace_range") :
          /\ Before(k).exists /\ hist[k].call.s >= 0
          /\ hist[k].call.e >= hist[k].call.s
          /\ hist[k].call.e > Len(Before(k).data)
          /\ hist[k].res = "InvalidRange"

\* C16: the same overwrite, no_clobber, replace_range or edit call issued a
\* second time, right after it succeeded, leaves the file as the first left it.
C16_RetryIdempotent ==
    \A k \in DOMAIN hist :
        ( /\ k + 1 \in DOMAIN hist
          /\ hist[k + 1].call = hist[k].call
          /\ hist[k].call.st \in {"overwrite", "no_clobber", "replace_range", "edit"}
          /\ hist[k].res = "ok" )
        => hist[k + 1].file = hist[k].file

----------------------------------------------------------------------------
(* Directory calls: mkdir with brace expansion, rmdir, and the part of      *)
(* handleWrite that creates parent directories. The trees of this           *)
(* specification hold directories and regular files, no symlinks.           *)

MaxDirCalls == 3     \* directory calls made one after another

\* strings.Index for a one-character needle: the first position, 0 if none.
IndexOf(s, ch) ==
    IF \A i \in 1..Len(s) : s[i] # ch THEN 0
    ELSE CHOOSE i \in 1..Len(s) : s[i] = ch /\ \A j \in 1..(i - 1) : s[j] # ch

\* strings.Split(s, ch): the pieces between the separators, empty ones included.
RECURSIVE SplitOn(_, _)
SplitOn(s, ch) ==
    IF s = <<>> THEN << <<>> >>
    ELSE IF Head(s) = ch THEN << <<>> >> \o SplitOn(Tail(s), ch)
    ELSE << <<Head(s)>> \o Head(SplitOn(Tail(s), ch)) >> \o Tail(SplitOn(Tail(s), ch))

\* A handler that takes the pattern as one literal path.
expandBracesNone(p) == <<p>>

\* expandBraces: the first "{" and the first "}" after it delimit the
\* alternatives; each alternative is put between prefix and suffix and the
\* result expanded again. Without such a pair the path is returned as it is.
RECURSIVE expandBraces(_)
RECURSIVE expandParts(_, _, _)
expandBraces(p) ==
    LET open == IndexOf(p, "{")
        close == IndexOf(SubSeq(p, open + 1, Len(p)), "}") + open
    IN  IF open = 0 \/ close = open THEN <<p>>
        ELSE expandParts(SubSeq(p, 1, open - 1),
                         SplitOn(SubSeq(p, open + 1, close - 1), ","),
                         SubSeq(p, close + 1, Len(p)))

expandParts(prefix, parts, suffix) ==
    IF parts = <<>> THEN <<>>
    ELSE expandBraces(prefix \o Head(parts) \o suffix)
         \o expandParts(prefix, Tail(parts), suffix)

\* strconv.ParseUint(s, 0, 32) of a string that starts with "0": octal digits.
OctDigits == <<"0", "1", "2", "3", "4", "5", "6", "7">>

RECURSIVE OctVal(_, _)
OctVal(s, acc) ==
    IF s = <<>> THEN acc
    ELSE OctVal(Tail(s), acc * 8 + (IndexOf(OctDigits, Head(s)) - 1))

\* parseMode: "" is 0644; otherwise a "0" is put in front unless there is one
\* and the string is parsed as a number.
parseMode(s) ==
    IF s = <<>> THEN [err |-> "", mode |-> 420]
    ELSE IF \A i \in 1..Len(s) : IndexOf(OctDigits, s[i]) # 0
         THEN [err |-> "", mode |-> OctVal(IF s[1] = "0" THEN s ELSE <<"0">> \o s, 0)]
         ELSE [err |-> "InvalidMode", mode |-> 0]

\* base64.StdEncoding.DecodeString succeeds on whole quanta of the alphabet
\* with the padding at the end.
Base64Chars == {"Q", "U", "="}
DecodeOk(content) ==
    /\ Len(content) % 4 = 0
    /\ \A i \in 1..Len(content) : content[i] \in Base64Chars
    /\ \A i \in 1..Len(content) :
          content[i] = "=" => i > Len(content) - 2 /\ content[Len(content)] = "="

\* The path and the directories above it, from the top.
Prefixes(p) == {AbsStr(SubSeq(Comps(p), 1, n)) : n \in 0..Len(Comps(p))}

\* os.Lstat: the node at the path; ENOTDIR when a file is on the way.
Lstat(F, p) ==
    IF p \in DOMAIN F THEN [err |-> "", node |-> F[p]]
    ELSE IF \E q \in Prefixes(p) : q \in DOMAIN F /\ F[q].kind # "dir"
         THEN [err |-> "notdir", node |-> Dir]
         ELSE [err |-> "notexist", node |-> Dir]

\* os.MkdirAll: the missing directories of the path are created, from the
\* top; nothing is created when an element of the path is not a directory.
MkdirAll(F, p) ==
    IF \E q \in Prefixes(p) : q \in DOMAIN F /\ F[q].kind # "dir"
    THEN [err |-> "notdir", fs |-> F]
    ELSE [err |-> "",
          fs |-> [q \in DOMAIN F \cup Prefixes(p) |->
                     IF q \in DOMAIN F THEN F[q] ELSE Dir]]

\* filepath.Dir
DirOf(p) == Clean(SplitDir(p))

ensureParent(F, path) == MkdirAll(F, DirOf(path))

DirResult(e, F, flag) == [err |-> e, fs |-> F, flag |-> flag]

\* A body of the mkdir loop that calls MkdirAll whatever Lstat saw.
mkdirOneBlind(F, full, st, made) == DirResult(made.err, made.fs, made.err = "")

\* The body of the mkdir loop for one resolved sub-path: an existing
\* directory is left alone, a missing one is created with MkdirAll.
mkdirOne(F, full, st, made) ==
    IF st.err = ""
    THEN IF st.node.kind # "dir" THEN DirResult("NotADirectory", F, FALSE)
         ELSE DirResult("", F, FALSE)
    ELSE IF st.err = "notexist" THEN DirResult(made.err, made.fs, made.err = "")
    ELSE DirResult(st.err, F, FALSE)

\* One sub-path of the loop: safeJoin, then the body.
mkdirPath(F, j) ==
    IF j.err # "" THEN DirResult(j.err, F, FALSE)
    ELSE mkdirOne(F, j.path, Lstat(F, j.path), MkdirAll(F, j.path))

\* for i, p := range paths: the first failing sub-path returns its error,
\* with the directories of the sub-paths before it already made.
RECURSIVE mkdirLoop(_, _, _, _)
mkdirNext(one, root, rest, anyCreated) ==
    IF one.err # "" THEN DirResult(one.err, one.fs, FALSE)
    ELSE mkdirLoop(one.fs, root, rest, anyCreated \/ one.flag)

mkdirLoop(F, root, paths, anyCreated) ==
    IF paths = <<>> THEN DirResult("", F, anyCreated)
    ELSE mkdirNext(mkdirPath(F, safeJoin(F, root, Head(paths))),
                   root, Tail(paths), anyCreated)

handleMkdir(F, root, c) ==
    IF parseMode(c.mode).err # "" THEN DirResult("InvalidMode", F, FALSE)
    ELSE mkdirLoop(F, root, expandBraces(c.path), FALSE)

\* handleRmdir after safeJoin: Lstat, the directory test, Remove or RemoveAll.
rmdirAt(F, full, st, recursive) ==
    IF st.err # "" THEN DirResult(st.err, F, FALSE)
    ELSE IF st.node.kind # "dir" THEN DirResult("NotADirectory", F, FALSE)
    ELSE IF recursive
         THEN DirResult("", [q \in DOMAIN F \ Descendants(F, full) |-> F[q]], TRUE)
    ELSE IF Children(F, full) # {} THEN DirResult("notempty", F, FALSE)
    ELSE DirResult("", [q \in DOMAIN F \ {full} |-> F[q]], TRUE)

rmdirPath(F, j, recursive) ==
    IF j.err # "" THEN DirResult(j.err, F, FALSE)
    ELSE rmdirAt(F, j.path, Lstat(F, j.path), recursive)

handleRmdir(F, root, c) == rmdirPath(F, safeJoin(F, root, c.path), c.flag)

\* handleWrite from the pre-stat guards on: symlink and directory targets
\* are refused; the lock file and the temp file need the parent directory;
\* the strategy switch ends in the unknown strategy error.
writeTarget(F, full, st, c) ==
    IF st.err = "" /\ st.node.kind = "symlink"
    THEN DirResult("RefuseSymlinkTarget", F, FALSE)
    ELSE IF st.err = "" /\ st.node.kind = "dir" /\ c.st \in {"overwrite", "no_clobber"}
    THEN DirResult("IsDirectory", F, FALSE)
    ELSE IF Lstat(F, DirOf(full)).err # ""
    THEN DirResult(Lstat(F, DirOf(full)).err, F, FALSE)
    ELSE IF c.st = "overwrite"
    THEN DirResult("", (full :> File) @@ F, st.err # "")
    ELSE DirResult("UnknownStrategy", F, FALSE)

\* handleWrite after ensureParent: parseMode, the decoding of the content.
writeChecked(made, full, c) ==
    IF made.err # "" THEN DirResult(made.err, made.fs, FALSE)
    ELSE IF parseMode(c.mode).err # "" THEN DirResult("InvalidMode", made.fs, FALSE)
    ELSE IF c.encoding = "base64" /\ ~DecodeOk(c.content)
    THEN DirResult("InvalidBase64", made.fs, FALSE)
    ELSE writeTarget(made.fs, full, Lstat(made.fs, full), c)

\* if args.CreateDirs == nil { b := ...; args.CreateDirs = &b }: false in
\* main.go and part_002, true in part_019.
CreateDirsDefault(build) == build = "part_019"
createDirs(c) == IF c.supplied THEN c.flag ELSE CreateDirsDefault(c.build)

\* handleWrite after safeJoin: the parent directories are made when
\* create_dirs is set, before the other arguments are looked at.
writePath(F, j, c) ==
    IF j.err # "" THEN DirResult(j.err, F, FALSE)
    ELSE writeChecked(IF createDirs(c) THEN ensureParent(F, j.path)
                      ELSE [err |-> "", fs |-> F],
                      j.path, c)

handleWriteDirs(F, root, c) ==
    IF c.encoding = "" THEN DirResult("EncodingRequired", F, FALSE)
    ELSE writePath(F, safeJoin(F, root, c.path), c)

DirCall(op, path, mode, flag) ==
    [op |-> op, path |-> path, mode |-> mode, flag |-> flag,
     encoding |-> "", content |-> <<>>, st |-> "", supplied |-> TRUE, build |-> "main"]

WriteDirsCall(path, flag, mode, encoding, content, st) ==
    [op |-> "write", path |-> path, mode |-> mode, flag |-> flag,
     encoding |-> encoding, content |-> content, st |-> st,
     supplied |-> TRUE, build |-> "main"]

\* A write that leaves create_dirs out, served by the handleWrite of a build.
WriteDefaultCall(path, build) ==
    [op |-> "write", path |-> path, mode |-> <<>>, flag |-> FALSE,
     encoding |-> "text", content |-> <<"Q">>, st |-> "overwrite",
     supplied |-> FALSE, build |-> build]

\* d  d/e  d/{a,b}c  {a,../o/x}  {../o/x,a}  f  {a,f}  {a  and a bad mode
MkdirCalls ==
    { DirCall("mkdir", <<"d">>, <<>>, FALSE),
      DirCall("mkdir", <<"d">>, <<"7", "5", "5">>, FALSE),
      DirCall("mkdir", <<"d">>, <<"9">>, FALSE),
      DirCall("mkdir", <<"d", "/", "e">>, <<>>, FALSE),
      DirCall("mkdir", <<"d", "/", "{", "a", ",", "b", "}", "c">>, <<>>, FALSE),
      DirCall("mkdir", <<"{", "a", ",", ".", ".", "/", "o", "/", "x", "}">>, <<>>, FALSE),
      DirCall("mkdir", <<"{", ".", ".", "/", "o", "/", "x", ",", "a", "}">>, <<>>, FALSE),
      DirCall("mkdir", <<"f">>, <<>>, FALSE),
      DirCall("mkdir", <<"{", "a", ",", "f", "}">>, <<>>, FALSE),
      DirCall("mkdir", <<"{", "a">>, <<>>, FALSE) }

RmdirCalls ==
    { DirCall("rmdir", <<"d">>, <<>>, FALSE),
      DirCall("rmdir", <<"d">>, <<>>, TRUE),
      DirCall("rmdir", <<"f">>, <<>>, FALSE),
      DirCall("rmdir", <<".", ".", "/", "o">>, <<>>, TRUE) }

\* Writes of n/g: with and without create_dirs, with a bad mode, with bad
\* base64, with an unknown strategy; a write onto the directory d, a write
\* outside Root, a write without encoding; writes of n/g that leave
\* create_dirs out.
WriteDirsCalls ==
    { WriteDirsCall(<<"n", "/", "g">>, TRUE, <<>>, "text", <<"Q">>, "overwrite"),
      WriteDirsCall(<<"n", "/", "g">>, FALSE, <<>>, "text", <<"Q">>, "overwrite"),
      WriteDirsCall(<<"n", "/", "g">>, TRUE, <<"9">>, "text", <<"Q">>, "overwrite"),
      WriteDirsCall(<<"n", "/", "g">>, TRUE, <<>>, "base64", <<"Q", "U", "=", "=">>, "overwrite"),
      WriteDirsCall(<<"n", "/", "g">>, TRUE, <<>>, "base64", <<"Q", "!">>, "overwrite"),
      WriteDirsCall(<<"n", "/", "g">>, TRUE, <<>>, "text", <<"Q">>, "bogus"),
      WriteDirsCall(<<"d">>, TRUE, <<>>, "text", <<"Q">>, "overwrite"),
      WriteDirsCall(<<".", ".", "/", "o", "/", "x">>, TRUE, <<>>, "text", <<"Q">>, "overwrite"),
      WriteDirsCall(<<"n", "/", "g">>, TRUE, <<>>, "", <<"Q">>, "overwrite"),
      WriteDefaultCall(<<"n", "/", "g">>, "main"),
      WriteDefaultCall(<<"n", "/", "g">>, "part_019") }

\* Root /r holds the file f; /o is a directory outside Root.
DirFS ==
    (Sep :> Dir) @@ (P(<<"r">>) :> Dir) @@ (P2(<<"r">>, <<"f">>) :> File) @@
    (P(<<"o">>) :> Dir)

InitD ==
    /\ fsR \in {DirFS, (P2(<<"r">>, <<"d">>) :> Dir) @@ DirFS}
    /\ reqPath = <<>> /\ opR = "none" /\ resR = <<>>
    /\ dcalls = 0
    /\ dlast = <<>>
    /\ IdleW
    /\ IdleS
    /\ IdleH /\ IdleL /\ IdleC /\ IdleP
    /\ IdleM /\ IdleG /\ IdleI

\* The handler returns: the tree is as it left it, the caller notes the call.
DirReturn(c, r) ==
    /\ fsR' = r.fs
    /\ dcalls' = dcalls + 1
    /\ dlast' = << [call |-> c, err |-> r.err, flag |-> r.flag,
                    before |-> fsR, after |-> r.fs] >>
                 \o SubSeq(dlast, 1, Min(1, Len(dlast)))
    /\ FrameD

MkdirOp ==
    /\ dcalls < MaxDirCalls
    /\ \E c \in MkdirCalls : DirReturn(c, handleMkdir(fsR, Root, c))

RmdirOp ==
    /\ dcalls < MaxDirCalls
    /\ \E c \in RmdirCalls : DirReturn(c, handleRmdir(fsR, Root, c))

WriteDirsOp ==
    /\ dcalls < MaxDirCalls
    /\ \E c \in WriteDirsCalls : DirReturn(c, handleWriteDirs(fsR, Root, c))

NextD == MkdirOp \/ RmdirOp \/ WriteDirsOp

SpecDir == InitD /\ [][NextD]_vars

----------------------------------------------------------------------------
(* Properties of directory calls *)

\* The errors that reject the arguments of a call.
ValidationErrors ==
    {"PathRequired", "PathEscape", "EncodingRequired", "InvalidMode", "InvalidBase64",
     "UnknownStrategy", "InvalidRange", "RefuseSymlinkTarget", "IsDirectory",
     "NotADirectory"}

\* C15: a call that returns a containment or validation error has created,
\* modified or removed nothing.
C15_NoPartialEffects ==
    \A i \in DOMAIN dlast :
        dlast[i].err \in ValidationErrors => dlast[i].after = dlast[i].before

\* The same call made twice in a row, the first time with success.
Repeated(op) ==
    /\ Len(dlast) = 2
    /\ dlast[1].call = dlast[2].call
    /\ dlast[1].call.op = op
    /\ dlast[2].err = ""

\* The directory a brace-free relative path names.
DirAt(path) == Root \o Sep \o path

IsDirIn(F, p) == p \in DOMAIN F /\ F[p].kind = "dir"

\* C18: a second rmdir of a directory that the first removed succeeds,
\* reports Removed=false and leaves the directory absent.
C18_RmdirIdempotent ==
    (Repeated("rmdir") /\ dlast[2].flag) =>
        /\ dlast[1].err = ""
        /\ ~dlast[1].flag
        /\ DirAt(dlast[1].call.path) \notin DOMAIN dlast[1].after

\* C19: a mkdir of a path that is not there reports Created=true and leaves
\* the directory; the same mkdir made again succeeds, reports Created=false
\* and leaves the tree, with the directory in it, as it was.
C19_MkdirIdempotent ==
    /\ \A i \in DOMAIN dlast :
          ( /\ dlast[i].call.op = "mkdir"
            /\ IndexOf(dlast[i].call.path, "{") = 0
            /\ dlast[i].err = "" )
          => /\ dlast[i].flag = (DirAt(dlast[i].call.path) \notin DOMAIN dlast[i].before)
             /\ IsDirIn(dlast[i].after, DirAt(dlast[i].call.path))
    /\ Repeated("mkdir") =>
          /\ dlast[1].err = ""
          /\ ~dlast[1].flag
          /\ dlast[1].after = dlast[1].before
          /\ IndexOf(dlast[1].call.path, "{") = 0
                => IsDirIn(dlast[1].after, DirAt(dlast[1].call.path))

C19_Witness ==
    /\ Repeated("mkdir")
    /\ IndexOf(dlast[1].call.path, "{") = 0
    /\ dlast[2].flag
    /\ ~dlast[1].flag
    /\ IsDirIn(fsR, DirAt(dlast[1].call.path))

\* mkdir d/{a,b}c, and the two patterns with an alternative outside Root.
BracePattern == <<"d", "/", "{", "a", ",", "b", "}", "c">>
BraceDirs == {P3(<<"r">>, <<"d">>, <<"a", "c">>), P3(<<"r">>, <<"d">>, <<"b", "c">>)}
EscapingPatterns ==
    { <<"{", "a", ",", ".", ".", "/", "o", "/", "x", "}">>,
      <<"{", ".", ".", "/", "o", "/", "x", ",", "a", "}">> }

\* C20: prefix{a,b}suffix stands for one literal path per alternative; each
\* is resolved against Root on its own, so an alternative outside Root fails
\* the call and nothing is ever made outside Root; after a successful call
\* every expanded directory exists under Root, and only those were made.
C20_BraceExpansion ==
    \A i \in DOMAIN dlast :
        dlast[i].call.op = "mkdir" =>
            /\ \A q \in DOMAIN dlast[i].after :
                  ~Within(q, Root) => q \in DOMAIN dlast[i].before
            /\ dlast[i].call.path \in EscapingPatterns => dlast[i].err = "PathEscape"
            /\ dlast[i].err = "" =>
                  \A k \in 1..Len(expandBraces(dlast[i].call.path)) :
                      /\ IsDirIn(dlast[i].after, DirAt(expandBraces(dlast[i].call.path)[k]))
                      /\ Within(DirAt(expandBraces(dlast[i].call.path)[k]), Root)
            /\ (dlast[i].call.path = BracePattern /\ dlast[i].err = "") =>
                  /\ \A d \in BraceDirs : IsDirIn(dlast[i].after, d)
                  /\ DOMAIN dlast[i].after \ DOMAIN dlast[i].before
                        \subseteq BraceDirs \cup {P2(<<"r">>, <<"d">>)}

C20_Witness ==
    \E i \in DOMAIN dlast :
        /\ dlast[i].call.path = BracePattern
        /\ dlast[i].err = ""
        /\ dlast[i].flag
        /\ BraceDirs \subseteq DOMAIN dlast[i].after \ DOMAIN dlast[i].before

\* A returned write that left create_dirs out, on a target whose parent
\* directory was missing when it was called.
DefaultWriteNoParent(d) ==
    /\ d.call.op = "write" /\ ~d.call.supplied
    /\ Lstat(d.before, DirOf(DirAt(d.call.path))).err # ""

\* C22: a write to a path whose parent directory does not exist, with
\* create_dirs not supplied, fails and creates neither the parent
\* directories nor the file.
C22_CreateDirsOptIn ==
    \A i \in DOMAIN dlast :
        DefaultWriteNoParent(dlast[i]) =>
            dlast[i].err # "" /\ dlast[i].after = dlast[i].before

\* The same for the handleWrite of main.go, whose default is false.
C22_DefaultFalse ==
    \A i \in DOMAIN dlast :
        (DefaultWriteNoParent(dlast[i]) /\ dlast[i].call.build = "main") =>
            dlast[i].err # "" /\ dlast[i].after = dlast[i].before

\* The handleWrite of part_019 has made the parent directory and the file
\* of a write that left create_dirs out.
C22_DefaultCreates ==
    \E i \in DOMAIN dlast :
        /\ DefaultWriteNoParent(dlast[i]) /\ dlast[i].call.build = "part_019"
        /\ dlast[i].err = ""
        /\ IsDirIn(dlast[i].after, DirOf(DirAt(dlast[i].call.path)))
        /\ DirAt(dlast[i].call.path) \in DOMAIN dlast[i].after

----------------------------------------------------------------------------
(* A handleWrite call on a path that another process of the machine may     *)
(* replace by a symlink to a file outside Root while the call runs.         *)

\* The bytes of the file outside Root that the symlink points to.
OuterData == <<"O">>

LinkCalls == {c \in SeqCalls : c.st # "edit"}

InitL ==
    /\ lpc = "lstat"
    /\ lcall \in LinkCalls
    /\ lpre = FALSE
    /\ \/ lnode = "absent" /\ linner = <<>>
       \/ lnode = "file" /\ linner \in {<<"A">>, <<"A", "C">>}
       \/ lnode = "symlink" /\ linner = <<>>
    /\ louter = OuterData
    /\ lres = ""
    /\ IdleR
    /\ IdleW
    /\ IdleS
    /\ IdleH /\ IdleD /\ IdleC /\ IdleP
    /\ IdleM /\ IdleG /\ IdleI

\* Another process puts a symlink to the outside file at the target path.
PlaceSymlink ==
    /\ lnode # "symlink"
    /\ lpc # "done"
    /\ lnode' = "symlink"
    /\ linner' = <<>>
    /\ UNCHANGED <<lpc, lcall, lpre, louter, lres>>
    /\ FrameL

\* The pre-stat guard: os.Lstat(full), and the refusal of a symlink.
LinkLstat ==
    /\ lpc = "lstat"
    /\ IF lnode = "symlink"
       THEN lres' = "RefuseSymlinkTarget" /\ lpc' = "done" /\ UNCHANGED lpre
       ELSE lpre' = (lnode = "file") /\ lpc' = "lock" /\ UNCHANGED lres
    /\ UNCHANGED <<lcall, lnode, linner, louter>>
    /\ FrameL

\* acquireLock(full, 3s) with nobody else on the lock.
LinkLock ==
    /\ lpc = "lock"
    /\ lpc' = "write"
    /\ UNCHANGED <<lcall, lpre, lnode, linner, louter, lres>>
    /\ FrameL

\* os.ReadFile(full) follows a symlink at the path.
ReadThrough == IF lnode = "symlink" THEN louter ELSE linner

LinkFail(e) ==
    /\ lres' = e
    /\ UNCHANGED <<lnode, linner, louter>>

\* atomicWrite: the rename puts a regular file at the path, whatever sat
\* there; the file a symlink pointed to is not touched.
LinkRename(data) ==
    /\ lnode' = "file"
    /\ linner' = data
    /\ lres' = "ok"
    /\ UNCHANGED louter

\* os.OpenFile(full, O_CREATE|O_WRONLY|O_APPEND) and f.Write(data): the
\* open follows a symlink at the path and the bytes go to the file it names.
LinkAppend(data) ==
    /\ IF lnode = "symlink"
       THEN louter' = louter \o data /\ UNCHANGED <<lnode, linner>>
       ELSE lnode' = "file" /\ linner' = linner \o data /\ UNCHANGED louter
    /\ lres' = "ok"

\* The strategy switch, under the lock, with what the pre-stat saw.
LinkWrite ==
    /\ lpc = "write"
    /\ lpc' = "done"
    /\ CASE lcall.st = "no_clobber" ->
              IF NoClobberRefused(lpre) THEN LinkFail("AlreadyExists")
              ELSE LinkRename(lcall.data)
         [] lcall.st = "overwrite" -> LinkRename(lcall.data)
         [] lcall.st = "append" -> LinkAppend(lcall.data)
         [] lcall.st = "prepend" ->
              LinkRename(lcall.data \o (IF lpre THEN ReadThrough ELSE <<>>))
         [] lcall.st = "replace_range" ->
              IF ~lpre THEN LinkFail("NotFound")
              ELSE IF ~ValidRange(ReadThrough, lcall.s, lcall.e)
                   THEN LinkFail("InvalidRange")
              ELSE LinkRename(Splice(ReadThrough, lcall.s, lcall.e, lcall.data))
    /\ UNCHANGED <<lcall, lpre>>
    /\ FrameL

NextL == PlaceSymlink \/ LinkLstat \/ LinkLock \/ LinkWrite

SpecLink == InitL /\ [][NextL]_vars

\* C17: a target that is a symlink is refused, and the bytes of the file
\* outside Root that a symlink at the target path names are never changed
\* by a write, whenever the symlink is put in place.
C17_NoWriteThroughSymlink ==
    /\ louter = OuterData
    /\ (lpc = "done" /\ lres = "ok") => lnode # "symlink"

\* A symlink that is in place when the pre-stat runs is refused.
C17_RefusedAtPreStat == [][(LinkLstat /\ lnode = "symlink") =>
                             (lres' = "RefuseSymlinkTarget" /\ lpc' = "done")]_vars

----------------------------------------------------------------------------
(* acquireLock on a lock that another process holds, with the context of    *)
(* the call cancelled while it waits. The repository has an acquireLock     *)
(* that takes the context (main.go) and two that do not (helpers.go and its *)
(* variant with exponential backoff); the build links one of them.          *)

NWaiters == 2        \* calls waiting for the held lock

\* The lock file of a live holder outside the callers of the model.
HeldByOther == [exists |-> TRUE, owner |-> 0, stale |-> FALSE]

InitC ==
    /\ goos = "linux"
    /\ target = FileOf(<<"A">>)
    /\ sentinel = HeldByOther
    /\ tmp = [p \in 1..NWaiters |-> Absent]
    /\ pc = [p \in 1..NWaiters |-> "idle"]
    /\ call = [p \in 1..NWaiters |-> NoCall]
    /\ pre = [p \in 1..NWaiters |-> FALSE]
    /\ buf = [p \in 1..NWaiters |-> <<>>]
    /\ elapsed = [p \in 1..NWaiters |-> 0]
    /\ sleepLeft = [p \in 1..NWaiters |-> 0]
    /\ waits = [p \in 1..NWaiters |-> 0]
    /\ evicted = [p \in 1..NWaiters |-> FALSE]
    /\ res = [p \in 1..NWaiters |-> ""]
    /\ faults = 0
    /\ lockCtx \in BOOLEAN
    /\ cancelled = FALSE
    /\ cancelWaits = [p \in 1..NWaiters |-> 0]
    /\ removeFails = FALSE
    /\ IdleR
    /\ IdleS
    /\ IdleH /\ IdleD /\ IdleL /\ IdleP
    /\ IdleM /\ IdleG /\ IdleI

\* A handler calls acquireLock with the 300 ms timeout of the lock test.
CtxAcquire(p) ==
    /\ pc[p] = "idle"
    /\ ~cancelled
    /\ call' = [call EXCEPT ![p] = LockCall(ContenderTimeout)]
    /\ EnterLock(p)
    /\ UNCHANGED <<goos, target, sentinel, tmp, pre, buf, res, faults>>
    /\ FrameW

\* The client cancels the request while a call waits for the lock.
CtxCancel ==
    /\ ~cancelled
    /\ \E p \in Procs : InLoop(p)
    /\ cancelled' = TRUE
    /\ cancelWaits' = waits
    /\ UNCHANGED <<lockCtx, removeFails, varsR, varsW, varsS, varsH, varsD, varsL, varsP, varsM, varsG, varsI>>

\* select { case <-ctx.Done(): return nil, ctx.Err() ... } at the top of the
\* loop and in place of the sleep, in the acquireLock that takes a context.
LockCtxDone(p) ==
    /\ lockCtx
    /\ cancelled
    /\ pc[p] \in {"lock_open", "lock_sleep"}
    /\ res' = [res EXCEPT ![p] = "Canceled"]
    /\ pc' = [pc EXCEPT ![p] = "done"]
    /\ DropLocals(p)
    /\ UNCHANGED <<goos, target, sentinel, tmp, call, faults>>
    /\ FrameW

\* os.OpenFile(lock, O_CREATE|O_EXCL): reached only past the context test
\* when the acquireLock takes a context.
LockOpenCtx(p) ==
    /\ ~(lockCtx /\ cancelled)
    /\ LockOpen(p)

\* The holder outside the model removes its lock file.
OtherRelease ==
    /\ sentinel = HeldByOther
    /\ sentinel' = NoSentinel
    /\ UNCHANGED <<goos, target, tmp, pc, call, pre, buf, res, faults>>
    /\ UnchangedLock
    /\ FrameW

NextC ==
    \/ \E p \in Procs : CtxAcquire(p)
    \/ CtxCancel
    \/ \E p \in Procs : LockCtxDone(p)
    \/ \E p \in Procs : LockOpenCtx(p)
    \/ \E p \in Procs : LockStat(p)
    \/ \E p \in Procs : LockDeadline(p)
    \/ \E p \in Procs : LockWake(p)
    \/ Tick
    \/ OtherRelease
    \/ \E p \in Procs : TestUnlock(p)
    \/ \E p \in Procs : Release(p)

SpecCancel == InitC /\ [][NextC]_vars

\* C27: once the context is cancelled, a call waiting in acquireLock checks
\* the deadline at most once more before it returns: it does not go on
\* retrying until the timeout.
C27_CancelStopsWaiting ==
    cancelled =>
        \A p \in Procs : InLoop(p) => waits[p] <= cancelWaits[p] + 1

\* The same for the acquireLock that takes the context (main.go).
C27_WithContext ==
    (lockCtx /\ cancelled) =>
        \A p \in Procs :
            /\ InLoop(p) => waits[p] <= cancelWaits[p] + 1
            /\ pc[p] # "lock_open" \/ ~ENABLED LockOpenCtx(p)

----------------------------------------------------------------------------
(* Glob matching. handleGlob comes in two builds: one walks Root and tests  *)
(* every relative path with doublestar.Match (part_022), the other calls    *)
(* filepath.Glob on the pattern joined to Root (part_019). A directory is    *)
(* given by the set of its regular files, each a sequence of names.         *)

Star == "*"
DoubleStar == <<"*", "*">>
ExtTxt == <<".", "t", "x", "t">>
ExtGo == <<".", "g", "o">>

\* filepath.Match on one name: "*" stands for any run of characters of the
\* name (a name holds no separator), every other character for itself.
RECURSIVE matchName(_, _)
matchName(pat, name) ==
    IF pat = <<>> THEN name = <<>>
    ELSE IF Head(pat) = Star
         THEN matchName(Tail(pat), name)
              \/ (name # <<>> /\ matchName(pat, Tail(name)))
         ELSE name # <<>> /\ Head(name) = Head(pat) /\ matchName(Tail(pat), Tail(name))

\* doublestar.Match on paths split at "/": a component "**" stands for zero
\* or more whole components, any other component matches one name.
RECURSIVE doublestarMatch(_, _)
doublestarMatch(pat, names) ==
    IF pat = <<>> THEN names = <<>>
    ELSE IF Head(pat) = DoubleStar
         THEN doublestarMatch(Tail(pat), names)
              \/ (names # <<>> /\ doublestarMatch(pat, Tail(names)))
         ELSE /\ names # <<>>
              /\ matchName(Head(pat), Head(names))
              /\ doublestarMatch(Tail(pat), Tail(names))

\* The entries below Root: the files and the directories that lead to them.
DirsOf(T) == UNION {{SubSeq(f, 1, n) : n \in 1..(Len(f) - 1)} : f \in T}
EntriesOf(T) == T \cup DirsOf(T)

\* filepath.Glob: the matches of the directory part of the pattern, and in
\* each of them that is a directory the names matching the last component.
RECURSIVE filepathGlob(_, _)
filepathGlob(T, pat) ==
    IF pat = <<>> THEN {<<>>}
    ELSE {e \in EntriesOf(T) :
            /\ Len(e) = Len(pat)
            /\ SubSeq(e, 1, Len(e) - 1) \in filepathGlob(T, SubSeq(pat, 1, Len(pat) - 1))
            /\ matchName(pat[Len(pat)], e[Len(e)])}

\* handleGlob: the relative paths it returns (max_results left at its
\* default of 1000, far above the entries of these directories). The walk of
\* part_022 also hands over Root itself, as ".".
handleGlob(build, T, pattern) ==
    LET pat == Comps(Clean(pattern))
    IN  IF build = "doublestar"
        THEN {JoinSep(e) : e \in {x \in EntriesOf(T) \cup {<<Dot>>} : doublestarMatch(pat, x)}}
        ELSE {JoinSep(e) : e \in filepathGlob(T, pat)}

\* The files a directory may hold, and the patterns asked for.
GlobFiles ==
    { << <<"c">> \o ExtTxt >>,
      << <<"d">> \o ExtGo >>,
      << <<"a">>, <<"c">> \o ExtTxt >>,
      << <<"a">>, <<"b">>, <<"c">> \o ExtTxt >>,
      << <<"a">>, <<"b">>, <<"d">> \o ExtGo >>,
      << <<"e">>, <<"f">>, <<"d">> \o ExtTxt >> }

RecursiveTxt == DoubleStar \o Sep \o <<Star>> \o ExtTxt
RootTxt == <<Star>> \o ExtTxt
GlobPatterns ==
    { RecursiveTxt, RootTxt, <<"a">> \o Sep \o RootTxt, <<Star>> \o Sep \o RootTxt }

GlobCall(b, T, pattern) == [op |-> "glob", build |-> b, files |-> T, pattern |-> pattern]

InitG ==
    /\ \E b \in {"doublestar", "filepath"}, T \in SUBSET GlobFiles, pattern \in GlobPatterns :
           fnCall = GlobCall(b, T, pattern)
    /\ fnOut = NoOut
    /\ IdleR /\ IdleW /\ IdleS /\ IdleH /\ IdleD /\ IdleL /\ IdleC
    /\ IdleM /\ IdleG /\ IdleI

GlobReturn ==
    /\ ~fnOut.done
    /\ fnCall.op = "glob"
    /\ fnOut' = Out(handleGlob(fnCall.build, fnCall.files, fnCall.pattern))
    /\ UNCHANGED <<fnCall, varsR, varsW, varsS, varsH, varsD, varsL, varsC, varsM, varsG, varsI>>

NextG == GlobReturn

SpecGlob == InitG /\ [][NextG]_vars

IsTxt(f) == Len(f[Len(f)]) > Len(ExtTxt) /\ matchName(RootTxt, f[Len(f)])

\* The two statements of the claim about a glob that has returned.
GlobRecursion ==
    /\ fnCall.pattern = RecursiveTxt =>
           fnOut.val = {JoinSep(f) : f \in {x \in fnCall.files : IsTxt(x)}}
    /\ fnCall.pattern = RootTxt =>
           fnOut.val = {JoinSep(f) : f \in {x \in fnCall.files : IsTxt(x) /\ Len(x) = 1}}

\* C21: glob with "**/*.txt" returns the .txt files at every depth below
\* Root, and glob with "*.txt" returns only the .txt files directly in Root.
C21_GlobRecursion == fnOut.done => GlobRecursion

\* The same for the build that matches with doublestar.Match.
C21_Doublestar ==
    (fnOut.done /\ fnCall.build = "doublestar") => GlobRecursion

\* The build on filepath.Glob has returned from "**/*.txt" without a .txt
\* file that lies two directories below Root.
C21_FilepathGlobMisses ==
    /\ fnOut.done /\ fnCall.build = "filepath" /\ fnCall.pattern = RecursiveTxt
    /\ \E f \in fnCall.files : IsTxt(f) /\ Len(f) = 3 /\ JoinSep(f) \notin fnOut.val

----------------------------------------------------------------------------
(* The replacement of handleEdit: literal or regex, with a count, in the    *)
(* build of edit.go and main.go and in the build of part_019.               *)

MaxOld == 3          \* bytes in the file an edit reads
MaxCount == 2        \* largest count an edit is called with

\* The pattern matches at the start of s. A regex is a run of literal bytes
\* and of "." (any byte); a literal pattern matches byte for byte.
MatchAt(regex, pat, s) ==
    /\ Len(s) >= Len(pat)
    /\ \A i \in DOMAIN pat : (regex /\ pat[i] = ".") \/ pat[i] = s[i]

\* strings.Count(old, pattern) and len(re.FindAllIndex(b, -1)): the matches
\* from left to right that do not overlap.
RECURSIVE CountMatches(_, _, _)
CountMatches(regex, pat, s) ==
    IF s = <<>> THEN 0
    ELSE IF MatchAt(regex, pat, s)
         THEN 1 + CountMatches(regex, pat, SubSeq(s, Len(pat) + 1, Len(s)))
         ELSE CountMatches(regex, pat, Tail(s))

\* strings.Replace(old, pattern, replace, n), strings.ReplaceAll and
\* re.ReplaceAll (n = -1), and re.ReplaceAllFunc with a callback that
\* replaces while n is not used up: the new bytes and how many matches
\* were replaced.
RECURSIVE ReplaceN(_, _, _, _, _)
ReplaceN(regex, pat, rep, s, n) ==
    IF s = <<>> THEN [out |-> <<>>, replaced |-> 0]
    ELSE IF n # 0 /\ MatchAt(regex, pat, s)
         THEN LET r == ReplaceN(regex, pat, rep, SubSeq(s, Len(pat) + 1, Len(s)),
                                IF n < 0 THEN n ELSE n - 1)
              IN  [out |-> rep \o r.out, replaced |-> r.replaced + 1]
         ELSE LET r == ReplaceN(regex, pat, rep, Tail(s), n)
              IN  [out |-> <<Head(s)>> \o r.out, replaced |-> r.replaced]

\* The regex branch of handleEdit. edit.go and main.go replace all for a
\* count of zero or less and count the matches with FindAllIndex; part_019
\* turns such a count into a limit of one.
editRegex(build, c, old) ==
    IF build = "part_019"
    THEN LET r == ReplaceN(TRUE, c.pattern, c.replace, old, IF c.count <= 0 THEN 1 ELSE c.count)
         IN  [out |-> r.out, replaced |-> r.replaced, count |-> r.replaced]
    ELSE IF c.count <= 0
    THEN LET r == ReplaceN(TRUE, c.pattern, c.replace, old, -1)
         IN  [out |-> r.out, replaced |-> r.replaced,
              count |-> CountMatches(TRUE, c.pattern, old)]
    ELSE LET r == ReplaceN(TRUE, c.pattern, c.replace, old, c.count)
         IN  [out |-> r.out, replaced |-> r.replaced, count |-> r.replaced]

\* The literal branch, the same in every build.
editLiteral(c, old) ==
    IF c.count <= 0
    THEN LET r == ReplaceN(FALSE, c.pattern, c.replace, old, -1)
         IN  [out |-> r.out, replaced |-> r.replaced,
              count |-> CountMatches(FALSE, c.pattern, old)]
    ELSE LET r == ReplaceN(FALSE, c.pattern, c.replace, old, c.count)
         IN  [out |-> r.out, replaced |-> r.replaced,
              count |-> Min(CountMatches(FALSE, c.pattern, old), c.count)]

\* handleEdit from os.ReadFile to the result: the bytes written, the
\* matches replaced in them, and EditResult.Replacements.
editReplace(build, c, old) ==
    IF c.regex THEN editRegex(build, c, old) ELSE editLiteral(c, old)

EditPatterns == { <<"a">>, <<"a", "a">>, <<".">> }
EditReplaces == { <<"b">>, <<>> }
EditFiles == UNION {[1..n -> {"a", "b", "."}] : n \in 0..MaxOld}

InitE ==
    /\ \E b \in {"edit.go", "part_019"}, rx \in BOOLEAN, n \in 0..MaxCount,
          pat \in EditPatterns, rep \in EditReplaces, old \in EditFiles :
           fnCall = [op |-> "edit", build |-> b, regex |-> rx, count |-> n,
                     pattern |-> pat, replace |-> rep, old |-> old]
    /\ fnOut = NoOut
    /\ IdleR /\ IdleW /\ IdleS /\ IdleH /\ IdleD /\ IdleL /\ IdleC
    /\ IdleM /\ IdleG /\ IdleI

EditReturn ==
    /\ ~fnOut.done
    /\ fnCall.op = "edit"
    /\ fnOut' = Out(editReplace(fnCall.build, fnCall, fnCall.old))
    /\ UNCHANGED <<fnCall, varsR, varsW, varsS, varsH, varsD, varsL, varsC, varsM, varsG, varsI>>

NextE == EditReturn

SpecEdit == InitE /\ [][NextE]_vars

\* An edit that replaced every occurrence and reported each of them: no
\* match is left before the bytes put in for the last one, the number
\* replaced is the number of matches of the file, and so is Replacements.
ReplacedAll(c, r) ==
    /\ r.replaced = CountMatches(c.regex, c.pattern, c.old)
    /\ r.count = r.replaced
    /\ Len(r.out) = Len(c.old) + r.replaced * (Len(c.replace) - Len(c.pattern))
    /\ (c.replace = <<>> /\ ~c.regex /\ Len(c.pattern) = 1)
          => \A i \in DOMAIN r.out : r.out[i] # c.pattern[1]

\* C23: an edit with count 0 replaces every occurrence of the pattern, in
\* literal and in regex mode, and Replacements is the number replaced.
C23_CountZeroReplacesAll ==
    (fnOut.done /\ fnCall.count = 0) => ReplacedAll(fnCall, fnOut.val)

\* The same for the handleEdit of edit.go and main.go.
C23_EditGo ==
    (fnOut.done /\ fnCall.count = 0 /\ fnCall.build = "edit.go")
        => ReplacedAll(fnCall, fnOut.val)

\* For every count, Replacements is the number of matches replaced.
C23_ReplacementsConsistent == fnOut.done => fnOut.val.count = fnOut.val.replaced

\* The regex edit of part_019 with count 0 has replaced one match of three.
C23_RegexReplacesOne ==
    /\ fnOut.done /\ fnCall.build = "part_019" /\ fnCall.regex /\ fnCall.count = 0
    /\ CountMatches(TRUE, fnCall.pattern, fnCall.old) = 3
    /\ fnOut.val.replaced = 1

----------------------------------------------------------------------------
(* Error codes: wrapStructuredHandler passes the error a handler returns to *)
(* toErrorResponse. An error value is given by the place that made it: the  *)
(* kind of failure it reports, the sentinel errors errors.Is finds in its   *)
(* chain, and whether it is an *OperationError carrying Op and Path.        *)

\* fmt.Errorf without %w and errors.New: no sentinel in the chain.
PlainError(kind, op, path) ==
    [kind |-> kind, chain |-> {}, opErr |-> FALSE, op |-> op, path |-> path]

\* An error of the os package for a missing file.
OsNotExist(op, path) ==
    [kind |-> "NotFound", chain |-> {"os.ErrNotExist"}, opErr |-> FALSE,
     op |-> op, path |-> path]

\* newOpError(op, path, err): Unwrap gives err, so the chain is that of err.
newOpError(op, path, kind, chain) ==
    [kind |-> kind, chain |-> chain, opErr |-> TRUE, op |-> op, path |-> path]

errorsIs(err, e) == e \in err.chain

\* toErrorResponse: Operation and Path of an *OperationError, and the code
\* of the first sentinel of the switch that errors.Is finds.
toErrorResponse(err) ==
    [operation |-> IF err.opErr THEN err.op ELSE "",
     path |-> IF err.opErr THEN err.path ELSE <<>>,
     code |-> IF errorsIs(err, "ErrPathOutsideRoot") THEN "PATH_ESCAPE"
              ELSE IF errorsIs(err, "ErrPathNotFound") THEN "NOT_FOUND"
              ELSE IF errorsIs(err, "ErrFileExists") THEN "ALREADY_EXISTS"
              ELSE IF errorsIs(err, "ErrInsufficientSpace") THEN "NO_SPACE"
              ELSE IF errorsIs(err, "ErrFileTooLarge") THEN "FILE_TOO_LARGE"
              ELSE IF errorsIs(err, "ErrLockTimeout") THEN "LOCK_TIMEOUT"
              ELSE "UNKNOWN_ERROR"]

ErrorOps == {"read", "write", "edit", "list", "glob", "mkdir", "rmdir"}
ErrorPaths == { <<"f">>, <<"d", "/", "f">>, <<".", ".", "/", "o">>, <<"n", "/", "g">> }

\* The errors the handlers return for a request path: safeJoin's refusal
\* (passed on as it is, by performSearch inside an *OperationError), the
\* "exists" of no_clobber, the timeout of acquireLock, the error of os.Lstat
\* or os.ReadFile on a missing target, the ErrPathNotFound and
\* ErrPatternRequired of performSearch, the invalid range of handleWrite.
HandlerErrors(path) ==
    {PlainError("PathEscape", op, path) : op \in ErrorOps}
    \cup {newOpError("search", path, "PathEscape", {})}
    \cup {PlainError("AlreadyExists", "write", path)}
    \cup {PlainError("LockTimeout", op, path) : op \in {"write", "edit"}}
    \cup {OsNotExist(op, path) : op \in {"read", "edit", "rmdir"}}
    \cup {newOpError("search", path, "NotFound", {"ErrPathNotFound"})}
    \cup {newOpError("search", path, "PatternRequired", {"ErrPatternRequired"})}
    \cup {PlainError("InvalidRange", "write", path)}

InitX ==
    /\ \E path \in ErrorPaths : \E err \in HandlerErrors(path) :
           fnCall = [op |-> "error", err |-> err]
    /\ fnOut = NoOut
    /\ IdleR /\ IdleW /\ IdleS /\ IdleH /\ IdleD /\ IdleL /\ IdleC
    /\ IdleM /\ IdleG /\ IdleI

\* if err != nil { errResp := toErrorResponse(err) ... }
ErrorReturn ==
    /\ ~fnOut.done
    /\ fnCall.op = "error"
    /\ fnOut' = Out(toErrorResponse(fnCall.err))
    /\ UNCHANGED <<fnCall, varsR, varsW, varsS, varsH, varsD, varsL, varsC, varsM, varsG, varsI>>

NextX == ErrorReturn

SpecError == InitX /\ [][NextX]_vars

\* The code the contract gives each of the four kinds.
CodeOf ==
    [PathEscape |-> "PATH_ESCAPE", AlreadyExists |-> "ALREADY_EXISTS",
     NotFound |-> "NOT_FOUND", LockTimeout |-> "LOCK_TIMEOUT"]

\* C24: a containment violation is reported with PATH_ESCAPE, a no_clobber
\* conflict with ALREADY_EXISTS, a missing target with NOT_FOUND, a lock
\* timeout with LOCK_TIMEOUT, and UNKNOWN_ERROR only for other errors.
C24_StableCodes ==
    fnOut.done =>
        IF fnCall.err.kind \in DOMAIN CodeOf
        THEN fnOut.val.code = CodeOf[fnCall.err.kind]
        ELSE fnOut.val.code = "UNKNOWN_ERROR"

\* What the switch does give: an error with one of its sentinels in the
\* chain gets that sentinel's code, every other error UNKNOWN_ERROR.
C24_SentinelCodes ==
    fnOut.done =>
        /\ errorsIs(fnCall.err, "ErrPathNotFound") => fnOut.val.code = "NOT_FOUND"
        /\ fnCall.err.chain \subseteq {"os.ErrNotExist", "ErrPatternRequired"}
               => fnOut.val.code = "UNKNOWN_ERROR"

\* safeJoin's refusal has come out as UNKNOWN_ERROR.
C24_EscapeUnknown ==
    /\ fnOut.done /\ fnCall.err.kind = "PathEscape"
    /\ fnOut.val.code = "UNKNOWN_ERROR"

----------------------------------------------------------------------------
(* acquireLock on a path whose lock file is stale, in a directory where     *)
(* the lock file can or cannot be removed.                                  *)

InitV ==
    /\ goos = "linux"
    /\ target = FileOf(<<"A">>)
    /\ sentinel = StaleSentinel
    /\ tmp = [p \in 1..NWaiters |-> Absent]
    /\ pc = [p \in 1..NWaiters |-> "idle"]
    /\ call = [p \in 1..NWaiters |-> NoCall]
    /\ pre = [p \in 1..NWaiters |-> FALSE]
    /\ buf = [p \in 1..NWaiters |-> <<>>]
    /\ elapsed = [p \in 1..NWaiters |-> 0]
    /\ sleepLeft = [p \in 1..NWaiters |-> 0]
    /\ waits = [p \in 1..NWaiters |-> 0]
    /\ evicted = [p \in 1..NWaiters |-> FALSE]
    /\ res = [p \in 1..NWaiters |-> ""]
    /\ faults = 0
    /\ lockCtx = FALSE
    /\ cancelled = FALSE
    /\ cancelWaits = [p \in 1..NWaiters |-> 0]
    /\ removeFails \in BOOLEAN
    /\ IdleR
    /\ IdleS
    /\ IdleH /\ IdleD /\ IdleL /\ IdleP
    /\ IdleM /\ IdleG /\ IdleI

\* The steps of one caller: its acquireLock, its use of the lock, its release.
StepV(p) ==
    \/ CtxAcquire(p)
    \/ LockOpen(p)
    \/ LockStat(p)
    \/ LockRemove(p)
    \/ LockDeadline(p)
    \/ LockWake(p)
    \/ TestUnlock(p)
    \/ Release(p)

NextV ==
    \/ \E p \in Procs : StepV(p)
    \/ Tick

SpecEvict == InitV /\ [][NextV]_vars

\* Every goroutine that can take a step is scheduled, and time passes.
SpecEvictFair ==
    /\ SpecEvict
    /\ \A p \in 1..NWaiters : WF_vars(StepV(p))
    /\ WF_vars(Tick)

\* C36: every call of acquireLock returns, with the lock or with the
\* timeout error, also when the lock file it finds is stale.
C36_AcquireTerminates == \A p \in 1..NWaiters : InLoop(p) ~> ~InLoop(p)

\* Where the stale lock file can be removed, every call returns.
C36_RemovableTerminates ==
    removeFails \/ (\A p \in 1..NWaiters : InLoop(p) ~> ~InLoop(p))

\* Past its deadline, a caller is back at OpenFile after a Remove that
\* failed, without having met the deadline check.
C36_DeadlineBypassed ==
    \E p \in Procs :
        /\ removeFails /\ sentinel = StaleSentinel
        /\ pc[p] = "lock_open" /\ elapsed[p] > call[p].timeout /\ waits[p] = 0


----------------------------------------------------------------------------
(* The debug-session store: handleDebuggingApproach and handlePendingDebug
   (src/unnamed/part_012).  Both handlers hold dbgMu from their first line
   to their return, so each call is one step. *)

\* const maxDebugSessions = 20.  The handlers use the number only in the
\* comparison len(dbgOrder) >= maxDebugSessions; the store is explored with
\* a smaller capacity so that every order of ids is covered.
maxDebugSessions == 3
MaxDbgIds == 5
DbgIds == 1..MaxDbgIds

\* Resolutions a caller sends: none, blanks only, a text.
Resolutions == {"", " ", "fixed"}
TrimSpace(r) == IF r = " " THEN "" ELSE r
StatusOf(resolution) ==
    IF TrimSpace(resolution) = "" THEN "incomplete" ELSE "complete"

\* A store that makes room by dropping the newest id.
dbgMakeRoomNewest(order) ==
    IF Len(order) >= maxDebugSessions THEN SubSeq(order, 1, Len(order) - 1)
    ELSE order

\* if len(dbgOrder) >= maxDebugSessions { oldest := dbgOrder[0];
\*     dbgOrder = dbgOrder[1:]; delete(dbgSessions, oldest) }
dbgMakeRoom(order) ==
    IF Len(order) >= maxDebugSessions THEN Tail(order) ELSE order
dbgOldest(order) ==
    IF Len(order) >= maxDebugSessions THEN {Head(order)} ELSE {}

NoDbgCall ==
    [tool |-> "none", arg |-> 0, id |-> 0, found |-> <<>>, status |-> "",
     pending |-> <<>>]

InitB ==
    /\ dbgSessions = <<>>
    /\ dbgOrder = <<>>
    /\ dbgCall = NoDbgCall
    /\ IdleR /\ IdleW /\ IdleS /\ IdleH /\ IdleD /\ IdleL /\ IdleC /\ IdleP
    /\ IdleM /\ IdleI

\* handleDebuggingApproach: arg is the session id of the request, 0 for none
\* (the handler then takes uuid.NewString(), an id no stored session has).
handleDebuggingApproach ==
    \E arg \in {0} \cup DbgIds, id \in DbgIds, resolution \in Resolutions :
        /\ arg # 0 => id = arg
        /\ arg = 0 => id \notin DOMAIN dbgSessions
        /\ LET known == id \in DOMAIN dbgSessions
               order == IF known THEN dbgOrder
                        ELSE Append(dbgMakeRoom(dbgOrder), id)
               gone == IF known THEN {} ELSE dbgOldest(dbgOrder)
               keys == (DOMAIN dbgSessions \ gone) \cup {id}
           IN  /\ dbgOrder' = order
               /\ dbgSessions' = [k \in keys |->
                                    IF k = id THEN StatusOf(resolution)
                                    ELSE dbgSessions[k]]
               /\ dbgCall' = [tool |-> "debuggingapproach", arg |-> arg,
                              id |-> id, found |-> dbgOrder,
                              status |-> StatusOf(resolution),
                              pending |-> <<>>]
        /\ UNCHANGED <<varsR, varsW, varsS, varsH, varsD, varsL, varsC, varsP,
                       varsM, varsI>>

IsPending(k) == k \in DOMAIN dbgSessions /\ dbgSessions[k] # "complete"

\* handlePendingDebug: the stored sessions that are not complete, in the
\* order of dbgOrder.
handlePendingDebug ==
    /\ dbgCall' = [tool |-> "pendingdebug", arg |-> 0, id |-> 0,
                   found |-> dbgOrder, status |-> "",
                   pending |-> SelectSeq(dbgOrder, IsPending)]
    /\ UNCHANGED <<dbgSessions, dbgOrder>>
    /\ UNCHANGED <<varsR, varsW, varsS, varsH, varsD, varsL, varsC, varsP,
                   varsM, varsI>>

NextB == handleDebuggingApproach \/ handlePendingDebug

SpecDebug == InitB /\ [][NextB]_vars

IdsOf(order) == {order[i] : i \in 1..Len(order)}
NoRepeat(order) ==
    \A i, j \in 1..Len(order) : i # j => order[i] # order[j]

\* C40: the store never holds more than maxDebugSessions sessions; dbgOrder
\* holds exactly the keys of dbgSessions, each once; a call that records an
\* id the store did not have when it was full drops the oldest id and puts
\* the new one last; a call that records an id the store had leaves the
\* order list as it found it.
C40_StoreBounded ==
    /\ Cardinality(DOMAIN dbgSessions) <= maxDebugSessions
    /\ Len(dbgOrder) <= maxDebugSessions
    /\ IdsOf(dbgOrder) = DOMAIN dbgSessions
    /\ NoRepeat(dbgOrder)
    /\ dbgCall.tool = "debuggingapproach" =>
          LET found == dbgCall.found
          IN  IF dbgCall.id \in IdsOf(found)
              THEN dbgOrder = found
              ELSE IF Len(found) = maxDebugSessions
                   THEN /\ dbgOrder = Append(Tail(found), dbgCall.id)
                        /\ Head(found) \notin DOMAIN dbgSessions
                   ELSE dbgOrder = Append(found, dbgCall.id)

\* A new id was recorded in a full store.
C40_Witness ==
    /\ dbgCall.tool = "debuggingapproach"
    /\ Len(dbgCall.found) = maxDebugSessions
    /\ dbgCall.id \notin IdsOf(dbgCall.found)
    /\ Len(dbgOrder) = maxDebugSessions


----------------------------------------------------------------------------
(* The session map and its RWMutex: handleCreateSession, handleSwitchSession
   and the getSessionState every file handler begins with
   (src/services/filesystem/session_handlers.go, session.go).  sync.RWMutex
   is not reentrant: Lock waits until no writer and no reader holds it,
   RLock waits while a writer holds it, whoever that writer is. *)

NSessCalls == 3
SessCallers == 1..NSessCalls
SessIds == {"default", "a"}
SessTools == {"create", "switch", "read"}

\* A tool call on a connection: the id it names and the id getSessionID
\* returns for the connection.
SessCalls == [tool : SessTools, id : SessIds, active : SessIds]

\* setupServer: sessions := map[string]*SessionState{"default": {Root: root}}.
InitM ==
    /\ mu = Unlocked
    /\ sessions = {"default"}
    /\ spc = [p \in SessCallers |-> "idle"]
    /\ scall = [p \in SessCallers |-> [tool |-> "read", id |-> "default",
                                       active |-> "default"]]
    /\ sres = [p \in SessCallers |-> ""]
    /\ IdleR /\ IdleW /\ IdleS /\ IdleH /\ IdleD /\ IdleL /\ IdleC /\ IdleP
    /\ IdleG /\ IdleI

FrameM ==
    UNCHANGED <<varsR, varsW, varsS, varsH, varsD, varsL, varsC, varsP,
                varsG, varsI>>

\* A request arrives: handleCreateSession goes for mu.Lock(),
\* handleSwitchSession for mu.RLock(), a file handler for getSessionState.
SessStart(p) ==
    /\ spc[p] = "idle"
    /\ \E c \in SessCalls :
        /\ scall' = [scall EXCEPT ![p] = c]
        /\ spc' = [spc EXCEPT ![p] =
                      CASE c.tool = "create" -> "lock"
                        [] c.tool = "switch" -> "rlock"
                        [] OTHER -> "state_rlock"]
    /\ UNCHANGED <<mu, sessions, sres>>
    /\ FrameM

\* handleCreateSession: mu.Lock().
CreateLock(p) ==
    /\ spc[p] = "lock"
    /\ mu.writer = 0 /\ mu.readers = {}
    /\ mu' = [mu EXCEPT !.writer = p]
    /\ spc' = [spc EXCEPT ![p] = "check"]
    /\ UNCHANGED <<sessions, scall, sres>>
    /\ FrameM

\* if _, exists := sessions[id]; exists { mu.Unlock(); return error };
\* otherwise the call to getSessionState, the lock still held.
CreateCheck(p) ==
    /\ spc[p] = "check"
    /\ IF scall[p].id \in sessions
       THEN /\ mu' = [mu EXCEPT !.writer = 0]
            /\ sres' = [sres EXCEPT ![p] = "exists"]
            /\ spc' = [spc EXCEPT ![p] = "done"]
       ELSE /\ spc' = [spc EXCEPT ![p] = "state_rlock"]
            /\ UNCHANGED <<mu, sres>>
    /\ UNCHANGED <<sessions, scall>>
    /\ FrameM

\* getSessionState: id := getSessionID(ctx); mu.RLock().
\* handleSwitchSession: mu.RLock().
SessRLock(p) ==
    /\ spc[p] \in {"rlock", "state_rlock"}
    /\ mu.writer = 0
    /\ mu' = [mu EXCEPT !.readers = @ \cup {p}]
    /\ spc' = [spc EXCEPT ![p] = IF @ = "rlock" THEN "runlock"
                                 ELSE "state_runlock"]
    /\ UNCHANGED <<sessions, scall, sres>>
    /\ FrameM

\* handleSwitchSession: _, ok := sessions[args.ID]; mu.RUnlock(); then the
\* error or setSessionID and the return.
SwitchRUnlock(p) ==
    /\ spc[p] = "runlock"
    /\ mu' = [mu EXCEPT !.readers = @ \ {p}]
    /\ sres' = [sres EXCEPT ![p] = IF scall[p].id \in sessions THEN "ok"
                                   ELSE "not found"]
    /\ spc' = [spc EXCEPT ![p] = "done"]
    /\ UNCHANGED <<sessions, scall>>
    /\ FrameM

\* getSessionState: state, ok := sessions[id]; mu.RUnlock(); return.  In a
\* file handler the call goes on to its file and returns; in
\* handleCreateSession the lines after it run under the lock taken first:
\* sessions[id] = &SessionState{Root: root}; mu.Unlock(); return.
StateRUnlock(p) ==
    /\ spc[p] = "state_runlock"
    /\ IF scall[p].tool = "create"
       THEN /\ sessions' = sessions \cup {scall[p].id}
            /\ mu' = [writer |-> 0, readers |-> mu.readers \ {p}]
            /\ sres' = [sres EXCEPT ![p] = "ok"]
       ELSE /\ mu' = [mu EXCEPT !.readers = @ \ {p}]
            /\ sres' = [sres EXCEPT ![p] =
                          IF scall[p].active \in sessions THEN "ok"
                          ELSE "unknown session"]
            /\ UNCHANGED sessions
    /\ spc' = [spc EXCEPT ![p] = "done"]
    /\ UNCHANGED scall
    /\ FrameM

StepM(p) ==
    \/ SessStart(p)
    \/ CreateLock(p)
    \/ CreateCheck(p)
    \/ SessRLock(p)
    \/ SwitchRUnlock(p)
    \/ StateRUnlock(p)

NextM == \E p \in SessCallers : StepM(p)

SpecSession == InitM /\ [][NextM]_vars

Creating(p) == scall[p].tool = "create" /\ spc[p] \notin {"idle", "done"}

\* C39: a handleCreateSession call never blocks forever and has released the
\* mutex when it returns: a call that holds the mutex can take its next
\* step (nobody else can release the mutex for it), and a call that has
\* returned does not hold it.
C39_CreateReturns ==
    \A p \in SessCallers :
        /\ (Creating(p) /\ mu.writer = p) => ENABLED StepM(p)
        /\ spc[p] = "done" => (mu.writer # p /\ p \notin mu.readers)

\* A creating call waits for mu.RLock() while it holds mu.Lock() itself.
C39_SelfDeadlock ==
    \E p \in SessCallers :
        /\ Creating(p) /\ spc[p] = "state_rlock" /\ mu.writer = p
        /\ ~ENABLED NextM

\* A handleCreateSession call that names a session that exists returns its
\* error with the mutex released.
C39_ExistingReturns ==
    \A p \in SessCallers :
        (scall[p].tool = "create" /\ spc[p] = "done") =>
            (sres[p] = "exists" /\ mu.writer # p)


----------------------------------------------------------------------------
(* The lock file of a path and the calls addressed to it.  acquireLock(p)
   keeps its sentinel at p + ".lock" (helpers.go:99), a path the tools
   accept like any other: a call addressed to "p.lock" passes safeJoin,
   and its own acquireLock keeps its sentinel at "p.lock.lock".
   lockNode is what sits at "p.lock": nothing, the sentinel the acquireLock
   of a caller created, a regular file a caller wrote, or a directory. *)

NIsoCallers == 3
IsoCallers == 1..NIsoCallers

\* write and edit take the lock of the path they name; mkdir and rmdir take
\* no lock.  Calls on p that take no lock do not touch p.lock.
IsoCalls ==
    [tool : {"write", "edit"}, path : {"p"}, st : {"overwrite"}]
        \cup [tool : {"write"}, path : {"p.lock"}, st : {"overwrite", "no_clobber"}]
        \cup [tool : {"edit", "mkdir", "rmdir"}, path : {"p.lock"}, st : {"overwrite"}]

SentinelOf(c) == [kind |-> "sentinel", by |-> c]
ContentOf(c) == [kind |-> "file", by |-> c]
DirNode == [kind |-> "dir", by |-> 0]

InitI ==
    /\ lockNode \in {NoNode, DirNode}
    /\ lockLock = 0
    /\ ipc = [c \in IsoCallers |-> "idle"]
    /\ icall = [c \in IsoCallers |-> [tool |-> "write", path |-> "p",
                                      st |-> "overwrite"]]
    /\ ipre = [c \in IsoCallers |-> "absent"]
    /\ ires = [c \in IsoCallers |-> ""]
    /\ IdleR /\ IdleW /\ IdleS /\ IdleH /\ IdleD /\ IdleL /\ IdleC /\ IdleP
    /\ IdleM /\ IdleG

FrameI ==
    UNCHANGED <<varsR, varsW, varsS, varsH, varsD, varsL, varsC, varsP,
                varsM, varsG>>

IsoReturn(c, r) ==
    /\ ires' = [ires EXCEPT ![c] = r]
    /\ ipc' = [ipc EXCEPT ![c] = "done"]

\* A request arrives.  A call on p goes to its acquireLock (what sits at p
\* itself is left out); a call on p.lock begins with os.Lstat(full).
IsoStart(c) ==
    /\ ipc[c] = "idle"
    /\ \E k \in IsoCalls :
        /\ icall' = [icall EXCEPT ![c] = k]
        /\ ipc' = [ipc EXCEPT ![c] = IF k.path = "p" THEN "acquire" ELSE "lstat"]
    /\ UNCHANGED <<lockNode, lockLock, ipre, ires>>
    /\ FrameI

\* os.Lstat(full) of a call on p.lock and the tests on what it found:
\* handleWrite refuses a directory, handleEdit wants a regular file,
\* handleMkdir creates the directory if nothing is there (os.MkdirAll),
\* handleRmdir wants a directory.
IsoLstat(c) ==
    /\ ipc[c] = "lstat"
    /\ LET k == icall[c]
           found == lockNode.kind
       IN  CASE k.tool = "write" ->
                  IF found = "dir"
                  THEN IsoReturn(c, "IsADirectory") /\ UNCHANGED <<lockNode, ipre>>
                  ELSE /\ ipre' = [ipre EXCEPT ![c] = found]
                       /\ ipc' = [ipc EXCEPT ![c] = "acquire"]
                       /\ UNCHANGED <<lockNode, ires>>
             [] k.tool = "edit" ->
                  IF found = "absent"
                  THEN IsoReturn(c, "NotFound") /\ UNCHANGED <<lockNode, ipre>>
                  ELSE IF found = "dir"
                  THEN IsoReturn(c, "NotRegular") /\ UNCHANGED <<lockNode, ipre>>
                  ELSE /\ ipre' = [ipre EXCEPT ![c] = found]
                       /\ ipc' = [ipc EXCEPT ![c] = "acquire"]
                       /\ UNCHANGED <<lockNode, ires>>
             [] k.tool = "mkdir" ->
                  IF found = "absent"
                  THEN /\ lockNode' = DirNode
                       /\ IsoReturn(c, "ok") /\ UNCHANGED ipre
                  ELSE IF found = "dir"
                  THEN IsoReturn(c, "ok") /\ UNCHANGED <<lockNode, ipre>>
                  ELSE IsoReturn(c, "NotADirectory") /\ UNCHANGED <<lockNode, ipre>>
             [] OTHER ->
                  IF found = "absent"
                  THEN IsoReturn(c, "NotFound") /\ UNCHANGED <<lockNode, ipre>>
                  ELSE IF found # "dir"
                  THEN IsoReturn(c, "NotADirectory") /\ UNCHANGED <<lockNode, ipre>>
                  ELSE /\ ipre' = [ipre EXCEPT ![c] = found]
                       /\ ipc' = [ipc EXCEPT ![c] = "remove"]
                       /\ UNCHANGED <<lockNode, ires>>
    /\ UNCHANGED <<lockLock, icall>>
    /\ FrameI

\* handleRmdir: os.Remove(full) after the Lstat that saw a directory.
\* os.Remove deletes what is at the path by now, a file as well as an
\* empty directory; it fails if nothing is there.
IsoRmdirRemove(c) ==
    /\ ipc[c] = "remove"
    /\ IF lockNode.kind = "absent"
       THEN IsoReturn(c, "NotFound") /\ UNCHANGED lockNode
       ELSE lockNode' = NoNode /\ IsoReturn(c, "ok")
    /\ UNCHANGED <<lockLock, icall, ipre>>
    /\ FrameI

\* acquireLock: os.OpenFile(lock, O_CREATE|O_EXCL) succeeds when nothing is
\* at the lock path.  The lock path of a call on p is p.lock, that of a
\* call on p.lock is p.lock.lock.
IsoAcquire(c) ==
    /\ ipc[c] = "acquire"
    /\ IF icall[c].path = "p"
       THEN /\ lockNode = NoNode
            /\ lockNode' = SentinelOf(c)
            /\ UNCHANGED lockLock
       ELSE /\ lockLock = 0
            /\ lockLock' = c
            /\ UNCHANGED lockNode
    /\ ipc' = [ipc EXCEPT ![c] = "held"]
    /\ UNCHANGED <<icall, ipre, ires>>
    /\ FrameI

\* acquireLock: the lock path stayed taken until the deadline.
IsoTimeout(c) ==
    /\ ipc[c] = "acquire"
    /\ IF icall[c].path = "p" THEN lockNode # NoNode ELSE lockLock # 0
    /\ IsoReturn(c, "LockTimeout")
    /\ UNCHANGED <<lockNode, lockLock, icall, ipre>>
    /\ FrameI

\* The work under the lock.  A call on p writes p.  A call on p.lock:
\* no_clobber refuses if its Lstat found a file; otherwise handleWrite and
\* handleEdit (after os.ReadFile, which fails if the file has gone) end in
\* atomicWrite, whose os.Rename puts the caller's file at p.lock in place
\* of what is there, and fails on a directory.
IsoWork(c) ==
    /\ ipc[c] = "held"
    /\ LET k == icall[c]
       IN  IF k.path = "p"
           THEN /\ UNCHANGED <<lockNode, ires>>
           ELSE IF k.tool = "write" /\ k.st = "no_clobber" /\ ipre[c] # "absent"
           THEN /\ ires' = [ires EXCEPT ![c] = "AlreadyExists"]
                /\ UNCHANGED lockNode
           ELSE IF k.tool = "edit" /\ lockNode.kind = "absent"
           THEN /\ ires' = [ires EXCEPT ![c] = "NotFound"]
                /\ UNCHANGED lockNode
           ELSE IF lockNode.kind = "dir"
           THEN /\ ires' = [ires EXCEPT ![c] = "IsADirectory"]
                /\ UNCHANGED lockNode
           ELSE /\ lockNode' = ContentOf(c)
                /\ UNCHANGED ires
    /\ ipc' = [ipc EXCEPT ![c] = "release"]
    /\ UNCHANGED <<lockLock, icall, ipre>>
    /\ FrameI

\* release(): os.Remove(lock), which deletes the file or empty directory at
\* the lock path, whatever it is.
IsoRelease(c) ==
    /\ ipc[c] = "release"
    /\ IF icall[c].path = "p"
       THEN lockNode' = NoNode /\ UNCHANGED lockLock
       ELSE lockLock' = 0 /\ UNCHANGED lockNode
    /\ ires' = [ires EXCEPT ![c] = IF @ = "" THEN "ok" ELSE @]
    /\ ipc' = [ipc EXCEPT ![c] = "done"]
    /\ UNCHANGED <<icall, ipre>>
    /\ FrameI

StepI(c) ==
    \/ IsoStart(c)
    \/ IsoLstat(c)
    \/ IsoRmdirRemove(c)
    \/ IsoAcquire(c)
    \/ IsoTimeout(c)
    \/ IsoWork(c)
    \/ IsoRelease(c)

NextI == \E c \in IsoCallers : StepI(c)

SpecSentinel == InitI /\ [][NextI]_vars

\* The caller holds the lock on p: its acquireLock has returned a handle and
\* its release has not run.
HoldsP(c) == icall[c].path = "p" /\ ipc[c] \in {"held", "release"}
ReleasesP(c) == icall[c].path = "p" /\ ipc[c] = "release" /\ ipc'[c] = "done"

\* C37: the sentinel of a lock held on p stays at p.lock until its holder
\* releases it, whatever calls are addressed to p.lock; and a file a caller
\* wrote at p.lock is not taken away by the release of a lock on p.
C37_SentinelIsolated ==
    [][/\ \A c \in IsoCallers :
            (HoldsP(c) /\ lockNode = SentinelOf(c) /\ lockNode' # lockNode)
                => ReleasesP(c)
       /\ (lockNode.kind = "file" /\ lockNode' # lockNode)
            => ~(\E c \in IsoCallers : ReleasesP(c))]_vars

\* The sentinel of a held lock is about to be replaced by a write to p.lock.
C37_SentinelReplaced ==
    \E c, d \in IsoCallers :
        /\ HoldsP(c) /\ lockNode = SentinelOf(c)
        /\ icall[d].path = "p.lock" /\ icall[d].tool \in {"write", "edit"}
        /\ ipc[d] = "held" /\ ENABLED IsoWork(d)

\* The release of the lock on p is about to delete the file another caller
\* wrote at p.lock.
C37_ContentDeleted ==
    \E c, d \in IsoCallers :
        /\ c # d
        /\ icall[c].path = "p" /\ ipc[c] = "release"
        /\ lockNode = ContentOf(d) /\ ires[d] = "ok"


----------------------------------------------------------------------------
(* Searches over a directory with entries that cannot be read: a file that
   os.Open refuses and a directory that ReadDir refuses
   (TestSearchSymlinkAndErrorIgnored), with a limit above the matches of two
   files. *)

SearchLimit == 3

ErrShapes ==
    {<<"file", h>> : h \in 0..MaxHits} \cup {<<"noopen", 1>>, <<"blocked", 1>>}

ErrTrees == [1..MaxEntries -> ErrShapes]

InitF ==
    /\ scanKind \in {"search", "perform"}
    /\ maxResults = SearchLimit
    /\ \E t \in ErrTrees : walk = WalkOf(t) /\ tree = WalkOf(t)
    /\ walkPc = "visit"
    /\ files = <<>>
    /\ ctxDone = FALSE
    /\ matches = <<>>
    /\ matchCount = 0
    /\ wpc = [w \in 1..NWorkers |-> "recv"]
    /\ wcur = [w \in 1..NWorkers |-> NoEntry]
    /\ returned = FALSE
    /\ walkErr = ""
    /\ IdleR
    /\ IdleW
    /\ hist = <<>>
    /\ IdleD /\ IdleL /\ IdleC /\ IdleP
    /\ IdleM /\ IdleG /\ IdleI

SpecScanErr == InitF /\ [][NextS]_vars

\* The matching lines of the files of the directory that can be read, and
\* the matches the scan holds.
AllMatches ==
    UNION {{[id |-> i, line |-> n] : n \in 1..tree[i].hits} :
             i \in {k \in DOMAIN tree : tree[k].kind = "file"}}
MatchSet == {matches[i] : i \in DOMAIN matches}

\* C31: a file that cannot be opened and a directory that cannot be read
\* are passed over: the search returns no error, no match comes from them,
\* and below the limit every matching line of the other files is returned.
C31_ScanErrorsSwallowed ==
    returned =>
        /\ scanErr = ""
        /\ \A i \in DOMAIN matches : tree[matches[i].id].kind = "file"
        /\ HitsFrom(tree, 1) < maxResults => AllMatches \subseteq MatchSet

\* A search has returned the match of a file that the walk reaches after a
\* directory it could not read and a file it could not open.
C31_Witness ==
    /\ returned
    /\ \E i, j, k \in DOMAIN tree :
        /\ i < k /\ j < k
        /\ tree[i].kind = "blocked" /\ tree[j].kind = "noopen"
        /\ tree[k].kind = "file" /\ tree[k].hits > 0
        /\ [id |-> k, line |-> 1] \in MatchSet

\* C32: the matches of one file stand in the result in the order of their
\* lines, at every moment of the scan.
C32_LinesIncrease ==
    \A i, j \in DOMAIN matches :
        (i < j /\ matches[i].id = matches[j].id)
            => matches[i].line < matches[j].line

\* Two workers of handleSearch have appended in turn: the two matches of one
\* file stand with the match of another file between them.
C32_Witness ==
    /\ scanKind = "search"
    /\ \E i, j, k \in DOMAIN matches :
        /\ i < j /\ j < k
        /\ matches[i].id = matches[k].id
        /\ matches[j].id # matches[i].id

\* C38: a search over files with fewer matching lines than the limit returns
\* each of them once and nothing else, whatever the order in which the
\* workers ran.
C38_SearchComplete ==
    (returned /\ HitsFrom(tree, 1) < maxResults) =>
        /\ Len(matches) = HitsFrom(tree, 1)
        /\ MatchSet = AllMatches

\* A search below the limit has returned the matches of two files, that of
\* the file walked later first.
C38_Witness ==
    /\ returned
    /\ HitsFrom(tree, 1) = 2 /\ Len(matches) = 2
    /\ matches[1].id > matches[2].id

====
